---------------------------- MODULE Spec2Model ----------------------------
(***************************************************************************)
(* A model of the DIDComm messenger of aries-framework-go                  *)
(* (pkg/didcomm/messenger/messenger.go): the store of message records and  *)
(* of per-thread metadata records, and the five operations HandleInbound,  *)
(* Send, SendToDestination, ReplyTo and ReplyToNested; and of the steps of  *)
(* the DID exchange BDD test (test/bdd/pkg/didexchange).                   *)
(*                                                                         *)
(* A message (service.DIDCommMsgMap) is a function from JSON keys to       *)
(* values; an absent key is a key outside its DOMAIN.  The store maps a    *)
(* key to the JSON object json.Marshal produced for a record.  An error    *)
(* is the chain of messages fmt.Errorf("...: %w", err) builds, outermost   *)
(* first; the nil error is the empty chain.                                *)
(***************************************************************************)
EXTENDS Naturals, Sequences, FiniteSets, TLC

VARIABLES
    store,      \* Messenger.store: key -> marshalled record
    inbound,    \* history: message id -> the record HandleInbound last saved for it
    persisted,  \* history: thread id -> the metadata the last outbound call on
                \* that thread persisted
    tracking,   \* whether the history of persisted metadata is being recorded
    ncalls,     \* the number of calls made to the messenger so far
    last        \* the call that has just ended: its operation, its inputs, what
                \* failed during it, its result and its dispatcher calls; Idle
                \* once the caller has taken the result

VARIABLES
    resolve     \* the call of resolveDID in progress: where it is (pc), its
                \* maxRetry, its loop counter i, its doc and err, and the
                \* history of what the resolver returned to it (results)

VARIABLES
    publicDIDs,     \* bddContext.PublicDIDs: agent -> its public DID, if it has one
    registered,     \* agent -> the states registerPostMsgEvent was called with
    awaited,        \* agent -> the states waitForPostEvent is called with
    actionCh,       \* d.actionCh: agent -> the events in its action channel
    statusCh,       \* agent -> the state messages in its status channel
    connectionID,   \* d.connectionID: agent -> connection id
    invitations,    \* d.invitations: inviter -> invitation
    approvers,      \* the goroutines approveRequest started: for each its
                    \* agent, where it is (pc) and the event it handles (e)
    listener,       \* agent -> its eventListener goroutine: where it is (pc)
                    \* and the flags it has still to send (pending)
    main,           \* the goroutine running the test steps: the step it is
                    \* at (pc), the awaited state it is at (j), the error that
                    \* ended the scenario (err), what validateConnection found
    crashed,        \* "" while the process runs, else what stopped it
    answers,        \* history: the calls of Continue and Stop on action events
    taken,          \* history: the action events taken from an action channel
    conn,           \* the DID exchange service: agent -> connection record
    network,        \* the protocol messages sent and not yet received
    actionOut,      \* agent -> the action events raised, on their way to the channel
    msgOut,         \* agent -> the state messages emitted, on their way to the channel
    nraised         \* counters: the action events and state messages raised

VARIABLES
    running         \* the calls of the messenger that run concurrently: for each
                    \* its operation and arguments, where it is (pc), the
                    \* values it holds and the error it returned

messengerVars == <<store, inbound, persisted, tracking, ncalls, last>>
exchangeVars ==
    <<publicDIDs, registered, awaited, actionCh, statusCh, connectionID,
      invitations, approvers, listener, main, crashed, answers, taken, conn,
      network, actionOut, msgOut, nraised>>
stepsVars == <<resolve, exchangeVars, running>>
vars == <<messengerVars, stepsVars>>

(***************************************************************************)
(* Bounds of the model.                                                    *)
(***************************************************************************)
\* how many calls are made to the messenger
MaxCalls == 3
\* the largest maxRetry resolveDID is called with
MaxRetry == 3
\* how many goroutines approveRequest starts, and how many action events are
\* raised, when the approval of action events is taken on its own
MaxApprovers == 2
MaxEvents == 2

(***************************************************************************)
(* Constants of messenger.go.                                              *)
(***************************************************************************)
jsonID == "@id"
jsonThread == "~thread"
jsonThreadID == "thid"
jsonParentThreadID == "pthid"
jsonMetadata == "_internal_metadata"

\* fmt.Sprintf(metadataKey, thID) with metadataKey = "metadata_%s"
metadataKey(thID) == "metadata_" \o thID

\* the nil error, the nil map
Nil == <<>>

\* fmt.Errorf(text + ": %w", err)
Wrap(text, err) == <<text>> \o err

\* storage.ErrDataNotFound
ErrDataNotFound == <<"data not found">>

\* an injected failure of the store or of the transport
ErrStore == <<"store failure">>
ErrTransport == <<"transport failure">>

\* errors.Is(err, target), for a target that wraps nothing
ErrorsIs(err, target) == \E i \in 1..Len(err) : err[i] = target[1]

(***************************************************************************)
(* type record, and its JSON form.  Every field is omitempty: json.Marshal *)
(* leaves out an empty string and an empty map, json.Unmarshal gives a     *)
(* missing field its zero value.                                           *)
(***************************************************************************)
record(my, their, th, pth, md) ==
    [MyDID |-> my, TheirDID |-> their, ThreadID |-> th,
     ParentThreadID |-> pth, Metadata |-> md]

Field(name, value, zero) == IF value = zero THEN Nil ELSE (name :> value)

Marshal(rec) ==
    Field("my_did", rec.MyDID, "") @@ Field("their_did", rec.TheirDID, "")
    @@ Field("thread_id", rec.ThreadID, "")
    @@ Field("parent_thread_id", rec.ParentThreadID, "")
    @@ Field("metadata", rec.Metadata, Nil)

Get(src, name, zero) == IF name \in DOMAIN src THEN src[name] ELSE zero

Unmarshal(src) ==
    record(Get(src, "my_did", ""), Get(src, "their_did", ""),
           Get(src, "thread_id", ""), Get(src, "parent_thread_id", ""),
           Get(src, "metadata", Nil))

(***************************************************************************)
(* service.DIDCommMsgMap: the accessors the messenger calls.               *)
(***************************************************************************)
ID(msg) == Get(msg, jsonID, "")

Thread(msg) == Get(msg, jsonThread, Nil)

\* ~thread.thid when it is there and not empty, otherwise @id; a message with
\* neither has no thread id
ThreadID(msg) ==
    LET thID == Get(Thread(msg), jsonThreadID, "")
    IN  IF thID # "" /\ ID(msg) = "" THEN [val |-> "", err |-> <<"invalid message">>]
        ELSE IF thID # "" THEN [val |-> thID, err |-> Nil]
        ELSE IF ID(msg) # "" THEN [val |-> ID(msg), err |-> Nil]
        ELSE [val |-> "", err |-> <<"threadID not found">>]

ParentThreadID(msg) == Get(Thread(msg), jsonParentThreadID, "")

Metadata(msg) == Get(msg, jsonMetadata, Nil)

\* msg[key] = value
SetKey(msg, key, value) == (key :> value) @@ msg

\* delete(msg, key)
DeleteKey(msg, key) == [k \in DOMAIN msg \ {key} |-> msg[k]]

(***************************************************************************)
(* storage.Store: Get and Put on one key, either of which may fail.        *)
(***************************************************************************)
StoreGet(st, key, fail) ==
    IF fail THEN [val |-> Nil, err |-> ErrStore]
    ELSE IF key \in DOMAIN st THEN [val |-> st[key], err |-> Nil]
    ELSE [val |-> Nil, err |-> ErrDataNotFound]

StorePut(st, key, src, fail) ==
    IF fail THEN [store |-> st, err |-> ErrStore]
    ELSE [store |-> (key :> src) @@ st, err |-> Nil]

\* dispatcher.Outbound: the call is recorded, and fails when the transport does
Dispatch(call, fail) ==
    [calls |-> <<call>>, err |-> IF fail THEN ErrTransport ELSE Nil]

SendToDIDCall(msg, myDID, theirDID) ==
    [fn |-> "SendToDID", msg |-> msg, a |-> myDID, b |-> theirDID]

SendCall(msg, sender, destination) ==
    [fn |-> "Send", msg |-> msg, a |-> sender, b |-> destination]

(***************************************************************************)
(* The messenger's helpers.                                                *)
(***************************************************************************)
\* json.Marshal of the record, then store.Put
saveRecord(st, msgID, rec, putFail) == StorePut(st, msgID, Marshal(rec), putFail)

\* store.Get, then json.Unmarshal
getRecord(st, msgID, getFail) ==
    LET g == StoreGet(st, msgID, getFail)
    IN  IF g.err # Nil
        THEN [rec |-> record("", "", "", "", Nil), err |-> Wrap("store get", g.err)]
        ELSE [rec |-> Unmarshal(g.val), err |-> Nil]

\* a bug: the new metadata is merged into the map already stored for the thread
saveMetadataMerges(st, msg, putFail) ==
    LET metadata == Metadata(msg)
        th == ThreadID(msg)
        g == getRecord(st, metadataKey(th.val), FALSE)
    IN  IF DOMAIN metadata = {} THEN [store |-> st, err |-> Nil]
        ELSE IF th.err # Nil THEN [store |-> st, err |-> Wrap("threadID", th.err)]
        ELSE saveRecord(st, metadataKey(th.val),
                        record("", "", "", "", metadata @@ g.rec.Metadata), putFail)

saveMetadata(st, msg, putFail) ==
    LET metadata == Metadata(msg)
        th == ThreadID(msg)
    IN  IF DOMAIN metadata = {} THEN [store |-> st, err |-> Nil]
        ELSE IF th.err # Nil THEN [store |-> st, err |-> Wrap("threadID", th.err)]
        ELSE saveRecord(st, metadataKey(th.val), record("", "", "", "", metadata), putFail)

\* a bug: every failure of the lookup is taken for a thread without metadata
populateMetadataAnyError(st, thID, msg, getFail) ==
    LET g == getRecord(st, metadataKey(thID), getFail)
    IN  IF g.err # Nil THEN [msg |-> msg, err |-> Nil]
        ELSE IF g.rec.Metadata = Nil THEN [msg |-> msg, err |-> Nil]
        ELSE [msg |-> SetKey(msg, jsonMetadata, g.rec.Metadata), err |-> Nil]

populateMetadata(st, thID, msg, getFail) ==
    LET g == getRecord(st, metadataKey(thID), getFail)
    IN  IF ErrorsIs(g.err, ErrDataNotFound) THEN [msg |-> msg, err |-> Nil]
        ELSE IF g.err # Nil THEN [msg |-> msg, err |-> Wrap("get record", g.err)]
        ELSE IF g.rec.Metadata = Nil THEN [msg |-> msg, err |-> Nil]
        ELSE [msg |-> SetKey(msg, jsonMetadata, g.rec.Metadata), err |-> Nil]

\* a bug: every message is given a new @id
fillIfMissingAlways(msg, uuid) == SetKey(msg, jsonID, uuid)

\* an @id is generated only for a message that has none
fillIfMissing(msg, uuid) ==
    IF ID(msg) = "" THEN SetKey(msg, jsonID, uuid) ELSE msg

\* what a call leaves behind: the store, the caller's message map and options,
\* the error returned and the calls made to the dispatcher
Outcome(st, msg, opts, err, calls) ==
    [store |-> st, msg |-> msg, opts |-> opts, err |-> err, calls |-> calls]

NoOpts == [ThreadID |-> "", TheirDID |-> "", MyDID |-> "", MsgID |-> ""]

\* a bug: the record's values replace the options the caller supplied
fillNestedReplyOptionOverwrites(st, opts, getFail) ==
    LET g == getRecord(st, opts.MsgID, getFail)
    IN  IF opts.ThreadID # "" /\ opts.TheirDID # "" /\ opts.MyDID # ""
        THEN [opts |-> opts, err |-> Nil]
        ELSE IF opts.MsgID = "" THEN [opts |-> opts, err |-> Nil]
        ELSE IF g.err # Nil THEN [opts |-> opts, err |-> g.err]
        ELSE [opts |-> [ThreadID |-> g.rec.ThreadID, TheirDID |-> g.rec.TheirDID,
                        MyDID |-> g.rec.MyDID, MsgID |-> opts.MsgID],
              err |-> Nil]

\* a bug: options that cannot be completed for want of a message id are refused
fillNestedReplyOptionNeedsID(st, opts, getFail) ==
    LET g == getRecord(st, opts.MsgID, getFail)
    IN  IF opts.ThreadID # "" /\ opts.TheirDID # "" /\ opts.MyDID # ""
        THEN [opts |-> opts, err |-> Nil]
        ELSE IF g.err # Nil THEN [opts |-> opts, err |-> g.err]
        ELSE [opts |->
                [ThreadID |-> IF opts.ThreadID = "" THEN g.rec.ThreadID ELSE opts.ThreadID,
                 TheirDID |-> IF opts.TheirDID = "" THEN g.rec.TheirDID ELSE opts.TheirDID,
                 MyDID |-> IF opts.MyDID = "" THEN g.rec.MyDID ELSE opts.MyDID,
                 MsgID |-> opts.MsgID],
              err |-> Nil]

fillNestedReplyOption(st, opts, getFail) ==
    LET g == getRecord(st, opts.MsgID, getFail)
    IN  IF opts.ThreadID # "" /\ opts.TheirDID # "" /\ opts.MyDID # ""
        THEN [opts |-> opts, err |-> Nil]
        ELSE IF opts.MsgID = "" THEN [opts |-> opts, err |-> Nil]
        ELSE IF g.err # Nil THEN [opts |-> opts, err |-> g.err]
        ELSE [opts |->
                [ThreadID |-> IF opts.ThreadID = "" THEN g.rec.ThreadID ELSE opts.ThreadID,
                 TheirDID |-> IF opts.TheirDID = "" THEN g.rec.TheirDID ELSE opts.TheirDID,
                 MyDID |-> IF opts.MyDID = "" THEN g.rec.MyDID ELSE opts.MyDID,
                 MsgID |-> opts.MsgID],
              err |-> Nil]

(***************************************************************************)
(* The messenger's operations, each as the outcome of one call.            *)
(***************************************************************************)
\* a bug: the message is not checked for its @id and its thread id
HandleInboundUnchecked(st, msg, myDID, theirDID, getFail, putFail) ==
    LET th == ThreadID(msg)
        pm == populateMetadata(st, th.val, msg, getFail)
        sv == saveRecord(st, ID(pm.msg),
                         record(myDID, theirDID, th.val, ParentThreadID(pm.msg), Nil),
                         putFail)
    IN  IF pm.err # Nil
        THEN Outcome(st, pm.msg, NoOpts, Wrap("with metadata", pm.err), <<>>)
        ELSE Outcome(sv.store, pm.msg, NoOpts, sv.err, <<>>)

\* a bug: the record's thread is always the message's own id
HandleInboundOwnThread(st, msg, myDID, theirDID, getFail, putFail) ==
    LET th == ThreadID(msg)
        pm == populateMetadata(st, th.val, msg, getFail)
        sv == saveRecord(st, ID(pm.msg),
                         record(myDID, theirDID, ID(pm.msg), ParentThreadID(pm.msg), Nil),
                         putFail)
    IN  IF ID(msg) = ""
        THEN Outcome(st, msg, NoOpts,
                     <<"message-id is absent and can't be processed">>, <<>>)
        ELSE IF th.err # Nil
        THEN Outcome(st, msg, NoOpts, Wrap("threadID", th.err), <<>>)
        ELSE IF pm.err # Nil
        THEN Outcome(st, pm.msg, NoOpts, Wrap("with metadata", pm.err), <<>>)
        ELSE Outcome(sv.store, pm.msg, NoOpts, sv.err, <<>>)

\* a bug: a message whose @id the store already has a record under is refused
HandleInboundOnce(st, msg, myDID, theirDID, getFail, putFail) ==
    LET th == ThreadID(msg)
        pm == populateMetadata(st, th.val, msg, getFail)
        sv == saveRecord(st, ID(pm.msg),
                         record(myDID, theirDID, th.val, ParentThreadID(pm.msg), Nil),
                         putFail)
    IN  IF ID(msg) = ""
        THEN Outcome(st, msg, NoOpts,
                     <<"message-id is absent and can't be processed">>, <<>>)
        ELSE IF th.err # Nil
        THEN Outcome(st, msg, NoOpts, Wrap("threadID", th.err), <<>>)
        ELSE IF pm.err # Nil
        THEN Outcome(st, pm.msg, NoOpts, Wrap("with metadata", pm.err), <<>>)
        ELSE IF ID(msg) \in DOMAIN st
        THEN Outcome(st, pm.msg, NoOpts, <<"message already handled">>, <<>>)
        ELSE Outcome(sv.store, pm.msg, NoOpts, sv.err, <<>>)

HandleInbound(st, msg, myDID, theirDID, getFail, putFail) ==
    LET th == ThreadID(msg)
        pm == populateMetadata(st, th.val, msg, getFail)
        sv == saveRecord(st, ID(pm.msg),
                         record(myDID, theirDID, th.val, ParentThreadID(pm.msg), Nil),
                         putFail)
    IN  IF ID(msg) = ""
        THEN Outcome(st, msg, NoOpts,
                     <<"message-id is absent and can't be processed">>, <<>>)
        ELSE IF th.err # Nil
        THEN Outcome(st, msg, NoOpts, Wrap("threadID", th.err), <<>>)
        ELSE IF pm.err # Nil
        THEN Outcome(st, pm.msg, NoOpts, Wrap("with metadata", pm.err), <<>>)
        ELSE Outcome(sv.store, pm.msg, NoOpts, sv.err, <<>>)

\* a bug: a send the transport refused is tried a second time
SendRetries(st, msg0, myDID, theirDID, uuid, putFail, sendFail) ==
    LET msg == fillIfMissing(msg0, uuid)
        sm == saveMetadata(st, msg, putFail)
        out == SetKey(msg, jsonThread, (jsonThreadID :> ID(msg)))
        d == Dispatch(SendToDIDCall(out, myDID, theirDID), sendFail)
    IN  IF sm.err # Nil
        THEN Outcome(sm.store, msg, NoOpts, Wrap("save metadata", sm.err), <<>>)
        ELSE IF d.err # Nil
        THEN Outcome(sm.store, out, NoOpts, d.err, d.calls \o d.calls)
        ELSE Outcome(sm.store, out, NoOpts, d.err, d.calls)

\* a bug: a ~thread the caller supplied is kept
SendKeepsThread(st, msg0, myDID, theirDID, uuid, putFail, sendFail) ==
    LET msg == fillIfMissing(msg0, uuid)
        sm == saveMetadata(st, msg, putFail)
        out == IF jsonThread \in DOMAIN msg THEN msg
               ELSE SetKey(msg, jsonThread, (jsonThreadID :> ID(msg)))
        d == Dispatch(SendToDIDCall(out, myDID, theirDID), sendFail)
    IN  IF sm.err # Nil
        THEN Outcome(sm.store, msg, NoOpts, Wrap("save metadata", sm.err), <<>>)
        ELSE Outcome(sm.store, out, NoOpts, d.err, d.calls)

Send(st, msg0, myDID, theirDID, uuid, putFail, sendFail) ==
    LET msg == fillIfMissing(msg0, uuid)
        sm == saveMetadata(st, msg, putFail)
        out == SetKey(msg, jsonThread, (jsonThreadID :> ID(msg)))
        d == Dispatch(SendToDIDCall(out, myDID, theirDID), sendFail)
    IN  IF sm.err # Nil
        THEN Outcome(sm.store, msg, NoOpts, Wrap("save metadata", sm.err), <<>>)
        ELSE Outcome(sm.store, out, NoOpts, d.err, d.calls)

\* a bug: the ~thread is not deleted
SendToDestinationKeepsThread(st, msg0, sender, destination, uuid, putFail, sendFail) ==
    LET msg == fillIfMissing(msg0, uuid)
        sm == saveMetadata(st, msg, putFail)
        d == Dispatch(SendCall(msg, sender, destination), sendFail)
    IN  IF sm.err # Nil
        THEN Outcome(sm.store, msg, NoOpts, Wrap("save metadata", sm.err), <<>>)
        ELSE Outcome(sm.store, msg, NoOpts, d.err, d.calls)

SendToDestination(st, msg0, sender, destination, uuid, putFail, sendFail) ==
    LET msg == fillIfMissing(msg0, uuid)
        sm == saveMetadata(st, msg, putFail)
        out == DeleteKey(msg, jsonThread)
        d == Dispatch(SendCall(out, sender, destination), sendFail)
    IN  IF sm.err # Nil
        THEN Outcome(sm.store, msg, NoOpts, Wrap("save metadata", sm.err), <<>>)
        ELSE Outcome(sm.store, out, NoOpts, d.err, d.calls)

\* a bug: pthid is set whether or not the record has a parent thread
ReplyThreadAlwaysParent(rec) ==
    (jsonThreadID :> rec.ThreadID) @@ (jsonParentThreadID :> rec.ParentThreadID)

ReplyThread(rec) ==
    IF rec.ParentThreadID # ""
    THEN (jsonThreadID :> rec.ThreadID) @@ (jsonParentThreadID :> rec.ParentThreadID)
    ELSE (jsonThreadID :> rec.ThreadID)

\* a bug: the metadata is saved before the record is looked up
ReplyToSavesFirst(st, msgID, msg0, uuid, getFail, putFail, sendFail) ==
    LET msg == fillIfMissing(msg0, uuid)
        sm == saveMetadata(st, msg, putFail)
        g == getRecord(sm.store, msgID, getFail)
        out == SetKey(msg, jsonThread, ReplyThread(g.rec))
        d == Dispatch(SendToDIDCall(out, g.rec.MyDID, g.rec.TheirDID), sendFail)
    IN  IF sm.err # Nil
        THEN Outcome(sm.store, msg, NoOpts, Wrap("save metadata", sm.err), <<>>)
        ELSE IF g.err # Nil
        THEN Outcome(sm.store, msg, NoOpts, Wrap("get record", g.err), <<>>)
        ELSE Outcome(sm.store, out, NoOpts, d.err, d.calls)

ReplyTo(st, msgID, msg0, uuid, getFail, putFail, sendFail) ==
    LET msg == fillIfMissing(msg0, uuid)
        g == getRecord(st, msgID, getFail)
        out == SetKey(msg, jsonThread, ReplyThread(g.rec))
        sm == saveMetadata(st, out, putFail)
        d == Dispatch(SendToDIDCall(out, g.rec.MyDID, g.rec.TheirDID), sendFail)
    IN  IF g.err # Nil
        THEN Outcome(st, msg, NoOpts, Wrap("get record", g.err), <<>>)
        ELSE IF sm.err # Nil
        THEN Outcome(sm.store, out, NoOpts, Wrap("save metadata", sm.err), <<>>)
        ELSE Outcome(sm.store, out, NoOpts, d.err, d.calls)

\* a bug: the caller's ~thread is extended with pthid, not replaced
ReplyToNestedKeepsThid(st, msg0, opts0, uuid, getFail, putFail, sendFail) ==
    LET msg == fillIfMissing(msg0, uuid)
        sm == saveMetadata(st, msg, putFail)
        f == fillNestedReplyOption(sm.store, opts0, getFail)
        out == SetKey(msg, jsonThread,
                      (jsonParentThreadID :> f.opts.ThreadID) @@ Thread(msg))
        d == Dispatch(SendToDIDCall(out, f.opts.MyDID, f.opts.TheirDID), sendFail)
    IN  IF sm.err # Nil
        THEN Outcome(sm.store, msg, opts0, Wrap("save metadata", sm.err), <<>>)
        ELSE IF f.err # Nil
        THEN Outcome(sm.store, msg, opts0,
                     Wrap("failed to prepare nested reply options", f.err), <<>>)
        ELSE Outcome(sm.store, out, f.opts, d.err, d.calls)

ReplyToNested(st, msg0, opts0, uuid, getFail, putFail, sendFail) ==
    LET msg == fillIfMissing(msg0, uuid)
        sm == saveMetadata(st, msg, putFail)
        f == fillNestedReplyOption(sm.store, opts0, getFail)
        out == SetKey(msg, jsonThread, (jsonParentThreadID :> f.opts.ThreadID))
        d == Dispatch(SendToDIDCall(out, f.opts.MyDID, f.opts.TheirDID), sendFail)
    IN  IF sm.err # Nil
        THEN Outcome(sm.store, msg, opts0, Wrap("save metadata", sm.err), <<>>)
        ELSE IF f.err # Nil
        THEN Outcome(sm.store, msg, opts0,
                     Wrap("failed to prepare nested reply options", f.err), <<>>)
        ELSE Outcome(sm.store, out, f.opts, d.err, d.calls)

(***************************************************************************)
(* The inputs the calls are made with.                                     *)
(***************************************************************************)
\* uuid.New().String() in the n-th call: an id no earlier call was given
NewUUID(n) == "uuid" \o ToString(n)

\* (myDID, theirDID) of two connections
DIDPairs == {<<"did:a", "did:b">>, <<"did:c", "did:d">>}

M1 == ("k1" :> "v1")
M2 == ("k2" :> "v2")

\* @id: absent, empty, an ordinary id, an id that reads like a metadata key
InboundIDs == {Nil, (jsonID :> ""), (jsonID :> "m1"), (jsonID :> "metadata_t1")}
OutboundIDs == {Nil, (jsonID :> ""), (jsonID :> "m1")}

\* ~thread: absent, thid and pthid, pthid alone, an empty thid
InboundThreads ==
    {Nil,
     (jsonThread :> ((jsonThreadID :> "t1") @@ (jsonParentThreadID :> "p1"))),
     (jsonThread :> (jsonParentThreadID :> "p1")),
     (jsonThread :> (jsonThreadID :> ""))}
OutboundThreads ==
    {Nil,
     (jsonThread :> ((jsonThreadID :> "t1") @@ (jsonParentThreadID :> "p1")))}

\* _internal_metadata: absent, empty, two different maps
Metadatas == {Nil, (jsonMetadata :> Nil), (jsonMetadata :> M1), (jsonMetadata :> M2)}

InboundMsgs ==
    {i @@ t @@ m : i \in InboundIDs, t \in InboundThreads,
                   m \in {Nil, (jsonMetadata :> M2)}}
OutboundMsgs == {i @@ t @@ m : i \in OutboundIDs, t \in OutboundThreads, m \in Metadatas}

\* the ids ReplyTo and ReplyToNested look up; "m2" is never received
MsgIDs == {"m1", "metadata_t1", "m2"}

Senders == {"key1"}
NoDestination == [ServiceEndpoint |-> "", RecipientKeys |-> <<>>, RoutingKeys |-> <<>>]
Destinations ==
    {[ServiceEndpoint |-> "http://b", RecipientKeys |-> <<"key2">>, RoutingKeys |-> <<>>],
     [ServiceEndpoint |-> "ws://r", RecipientKeys |-> <<"key3">>, RoutingKeys |-> <<"key4">>]}

NestedReplyOpts ==
    [ThreadID : {"", "t2"}, TheirDID : {"", "did:f"}, MyDID : {"", "did:e"},
     MsgID : {""} \cup MsgIDs]

\* what fails during a call: nothing, the store's Get, the store's Put, the
\* transport.  A call returns at its first failure, so one failure a call is all
\* there is to see.
Failures == {"none", "get", "put", "send"}

(***************************************************************************)
(* resolveDID of the BDD steps: an error is the words of its text, the nil *)
(* error the empty text.                                                   *)
(***************************************************************************)
\* the text resolveDID looks for in the resolver's error
DIDNotExist == <<"DID", "does", "not", "exist">>

\* strings.Contains(s, substr)
Contains(s, substr) ==
    \E k \in 0..Len(s) :
        /\ k + Len(substr) <= Len(s)
        /\ \A j \in 1..Len(substr) : s[k + j] = substr[j]

\* a bug: every error of the resolver is retried
RetryAnyError(err) == err # Nil

\* the negation of the condition resolveDID returns on: another attempt is made
Retry(err) == ~(err = Nil \/ ~Contains(err, DIDNotExist))

\* the loop counter starts at 1
FirstAttempt == 1

\* what the resolver may answer: a document, or no document and an error
NilDoc == "nil"
Docs == {"doc1", "doc2"}
ResolverErrors ==
    {<<"DID", "does", "not", "exist">>,
     <<"resolve", ":", "DID", "does", "not", "exist">>,
     <<"DID", "does", "not", "exist", "yet">>,
     <<"DID", "does", "not", "resolve">>,
     <<"connection", "refused">>}
ResolverResults ==
    [doc : Docs, err : {Nil}] \cup [doc : {NilDoc}, err : ResolverErrors]
MaxRetries == 0..MaxRetry

NotResolving ==
    [pc |-> "idle", maxRetry |-> 0, i |-> 0, doc |-> NilDoc, err |-> Nil,
     results |-> <<>>]

(***************************************************************************)
(* The DID exchange BDD steps (didexchange_sdk_steps.go) and the DID       *)
(* exchange service they drive.  The service is the table of transitions   *)
(* of the protocol: a transition persists the record, sends the protocol   *)
(* message, emits the post-state message and raises the action event of    *)
(* the next transition that needs approval, all at once.                   *)
(***************************************************************************)
Agents == {"Alice", "Bob"}
Inviter == "Alice"
Invitee == "Bob"
Role(a) == IF a = Inviter THEN "inviter" ELSE "invitee"

\* make(chan service.DIDCommAction, 1) and make(chan service.StateMsg, 1)
ActionChSize == 1
StatusChSize == 1

PostState == "PostState"
PreState == "PreState"

Terminal == {"completed", "abandoned"}
MsgTypes == {"ConnectionRequest", "ConnectionResponse", "Ack", "ProblemReport"}

\* a bug: a ConnectionRequest is taken in whatever state the record is
TransitionAnyState(role, state, trigger) ==
    CASE state \notin Terminal /\ trigger \in {"ProblemReport", "Timeout"} -> "abandoned"
      [] role = "inviter" /\ state = "null" /\ trigger = "CreateInvitation" -> "invited"
      [] role = "invitee" /\ state = "null" /\ trigger = "Invitation" -> "invited"
      [] role = "invitee" /\ state = "invited" /\ trigger = "AcceptInvitation" -> "requested"
      [] role = "inviter" /\ trigger = "ConnectionRequest" -> "requested"
      [] role = "inviter" /\ state = "requested" /\ trigger = "AcceptRequest" -> "responded"
      [] role = "invitee" /\ state = "requested" /\ trigger = "ConnectionResponse" -> "responded"
      [] role = "invitee" /\ state = "responded" /\ trigger = "AcceptResponse" -> "completed"
      [] role = "inviter" /\ state = "responded" /\ trigger = "Ack" -> "completed"
      [] OTHER -> state

\* the table of transitions: the state a trigger moves a record to, the state
\* it is in when the table has no row for the trigger
Transition(role, state, trigger) ==
    CASE state \notin Terminal /\ trigger \in {"ProblemReport", "Timeout"} -> "abandoned"
      [] role = "inviter" /\ state = "null" /\ trigger = "CreateInvitation" -> "invited"
      [] role = "invitee" /\ state = "null" /\ trigger = "Invitation" -> "invited"
      [] role = "invitee" /\ state = "invited" /\ trigger = "AcceptInvitation" -> "requested"
      [] role = "inviter" /\ state = "invited" /\ trigger = "ConnectionRequest" -> "requested"
      [] role = "inviter" /\ state = "requested" /\ trigger = "AcceptRequest" -> "responded"
      [] role = "invitee" /\ state = "requested" /\ trigger = "ConnectionResponse" -> "responded"
      [] role = "invitee" /\ state = "responded" /\ trigger = "AcceptResponse" -> "completed"
      [] role = "inviter" /\ state = "responded" /\ trigger = "Ack" -> "completed"
      [] OTHER -> state

\* the transition whose approval an inbound message asks for, if any
Approval(trigger) ==
    CASE trigger = "Invitation" -> "AcceptInvitation"
      [] trigger = "ConnectionRequest" -> "AcceptRequest"
      [] trigger = "ConnectionResponse" -> "AcceptResponse"
      [] OTHER -> ""

\* the protocol message a transition sends to the peer, if any
Sends(trigger) ==
    CASE trigger = "AcceptInvitation" -> "ConnectionRequest"
      [] trigger = "AcceptRequest" -> "ConnectionResponse"
      [] trigger = "AcceptResponse" -> "Ack"
      [] OTHER -> ""

Peer(a) == IF a = Inviter THEN Invitee ELSE Inviter
ConnID(a) == "conn-" \o a
ConnIDs == {ConnID(a) : a \in Agents}

NoEvent == [id |-> 0, agent |-> "", approves |-> "", props |-> "", conn |-> ""]
ActionEvent(id, a, approves, props, c) ==
    [id |-> id, agent |-> a, approves |-> approves, props |-> props, conn |-> c]
StateMsg(type, state, props, payload) ==
    [type |-> type, state |-> state, props |-> props, payload |-> payload]

\* the record of an agent before the handshake, with the history of the
\* post-state messages emitted (posted) and the last trigger given (handled)
NoConnection == [state |-> "null", myDID |-> "", theirDID |-> "", posted |-> <<>>,
                 handled |-> ""]

\* getClientOptions: nil, or options with the agent's public DID
getClientOptions(pubs, a) ==
    IF a \in DOMAIN pubs THEN [publicDID |-> pubs[a]] ELSE Nil

\* a bug: every post-state message is signalled on every registered state
FlagsAllStates(states, e) ==
    IF e.type = PostState THEN states ELSE <<>>

\* a bug: the type of the state message is not looked at
FlagsAnyType(states, e) == SelectSeq(states, LAMBDA state : e.state = state)

\* eventListener: the flags a state message makes it send, in order
Flags(states, e) ==
    IF e.type = PostState
    THEN SelectSeq(states, LAMBDA state : e.state = state)
    ELSE <<>>

\* what an unsynchronised access to the connectionID map may do to the
\* process when another goroutine is writing the map: nothing, or the
\* runtime's fatal error
RaceOutcomes(racing) == IF racing THEN {"", "fatal"} ELSE {""}

\* the steps of the scenario, in the order the test runs them: the inviter
\* that has a public DID creates its invitation with it
Script ==
    <<[step |-> IF Inviter \in DOMAIN publicDIDs
                THEN "createInvitationWithDID" ELSE "createInvitation",
       agent |-> Inviter, state |-> ""],
      [step |-> "receiveInvitation", agent |-> Invitee, state |-> ""],
      [step |-> "approveRequest", agent |-> Invitee, state |-> ""],
      [step |-> "approveRequest", agent |-> Inviter, state |-> ""],
      [step |-> "waitForPostEvent", agent |-> Inviter, state |-> ""],
      [step |-> "waitForPostEvent", agent |-> Invitee, state |-> ""],
      [step |-> "validateConnection", agent |-> Inviter, state |-> "completed"],
      [step |-> "validateConnection", agent |-> Invitee, state |-> "completed"]>>

\* the inputs of the scenario
PublicDIDChoices == {Nil, (Inviter :> "did:example:alice")}
StateLists == {<<"completed">>, <<"requested", "completed">>,
               <<"completed", "requested">>}

\* the steps' state once the clients are created and the listeners started
InitExchange(pubs, reg, aw, pc) ==
    /\ publicDIDs = pubs
    /\ registered = reg
    /\ awaited = aw
    /\ actionCh = [a \in Agents |-> <<>>]
    /\ statusCh = [a \in Agents |-> <<>>]
    /\ connectionID = [a \in Agents |-> ""]
    /\ invitations = Nil
    /\ approvers = <<>>
    /\ listener = [a \in Agents |-> [pc |-> "range", pending |-> <<>>]]
    /\ main = [pc |-> pc, j |-> 1, err |-> Nil, validated |-> {}]
    /\ crashed = ""
    /\ answers = <<>>
    /\ taken = <<>>
    /\ conn = [a \in Agents |-> NoConnection]
    /\ network = {}
    /\ actionOut = [a \in Agents |-> <<>>]
    /\ msgOut = [a \in Agents |-> <<>>]
    /\ nraised = [events |-> 0]

\* no scenario is run
NoScenario ==
    InitExchange(Nil, [a \in Agents |-> <<"completed">>],
                 [a \in Agents |-> <<"completed">>], Len(Script) + 1)

(***************************************************************************)
(* The state machine: one action per operation of the Messenger, and the   *)
(* return to the caller.                                                   *)
(***************************************************************************)
Call(op, msg, myDID, theirDID, msgID, sender, dest, opts, fail, r) ==
    [op |-> op, fail |-> fail, msg |-> msg, myDID |-> myDID, theirDID |-> theirDID, msgID |-> msgID,
     sender |-> sender, dest |-> dest, opts |-> opts,
     err |-> r.err, calls |-> r.calls, out |-> r.msg, optsOut |-> r.opts]

Idle == Call("idle", Nil, "", "", "", "", NoDestination, NoOpts, "none",
             Outcome(Nil, Nil, NoOpts, Nil, <<>>))

\* NewMessenger: an empty store, nothing handled yet
Init ==
    /\ store = Nil
    /\ inbound = Nil
    /\ persisted = Nil
    /\ tracking = FALSE
    /\ ncalls = 0
    /\ last = Idle
    /\ resolve = NotResolving
    /\ running = <<>>
    /\ NoScenario

CanCall == last = Idle /\ ncalls < MaxCalls

\* the history of persisted metadata after an outbound call: when the call
\* reached saveMetadata with metadata on its message and the Put succeeded, the
\* metadata is recorded under the thread saveMetadata keyed it on, the thread of
\* the message as it was at that moment, whatever the call did afterwards
Persisted(msg, reached, putFail) ==
    IF /\ tracking
       /\ reached
       /\ DOMAIN Metadata(msg) # {}
       /\ saveMetadata(store, msg, putFail).err = Nil
    THEN (ThreadID(msg).val :> Metadata(msg)) @@ persisted
    ELSE persisted

HandleInboundStep ==
    /\ CanCall
    /\ \E msg \in InboundMsgs, dids \in DIDPairs, fail \in Failures \ {"send"} :
        LET r == HandleInbound(store, msg, dids[1], dids[2], fail = "get", fail = "put")
        IN  /\ store' = r.store
            /\ inbound' = IF r.err = Nil
                          THEN (ID(msg) :> Unmarshal(r.store[ID(msg)])) @@ inbound
                          ELSE inbound
            /\ last' = Call("HandleInbound", msg, dids[1], dids[2], "", "",
                            NoDestination, NoOpts, fail, r)
            /\ ncalls' = ncalls + 1
            /\ UNCHANGED <<persisted, tracking, stepsVars>>

SendStep ==
    /\ CanCall
    /\ \E msg \in OutboundMsgs, dids \in DIDPairs, fail \in Failures \ {"get"} :
        LET r == Send(store, msg, dids[1], dids[2], NewUUID(ncalls + 1),
                      fail = "put", fail = "send")
        IN  /\ store' = r.store
            /\ last' = Call("Send", msg, dids[1], dids[2], "", "",
                            NoDestination, NoOpts, fail, r)
            /\ ncalls' = ncalls + 1
            /\ persisted' = Persisted(fillIfMissing(msg, NewUUID(ncalls + 1)), TRUE, fail = "put")
            /\ UNCHANGED <<inbound, tracking, stepsVars>>

SendToDestinationStep ==
    /\ CanCall
    /\ \E msg \in OutboundMsgs, sender \in Senders, dest \in Destinations,
          fail \in Failures \ {"get"} :
        LET r == SendToDestination(store, msg, sender, dest, NewUUID(ncalls + 1),
                                   fail = "put", fail = "send")
        IN  /\ store' = r.store
            /\ last' = Call("SendToDestination", msg, "", "", "", sender, dest, NoOpts, fail, r)
            /\ ncalls' = ncalls + 1
            /\ persisted' = Persisted(fillIfMissing(msg, NewUUID(ncalls + 1)), TRUE,
                                      fail = "put")
            /\ UNCHANGED <<inbound, tracking, stepsVars>>

ReplyToStep ==
    /\ CanCall
    /\ \E msgID \in MsgIDs, msg \in OutboundMsgs, fail \in Failures :
        LET r == ReplyTo(store, msgID, msg, NewUUID(ncalls + 1),
                         fail = "get", fail = "put", fail = "send")
        IN  /\ store' = r.store
            /\ last' = Call("ReplyTo", msg, "", "", msgID, "", NoDestination, NoOpts, fail, r)
            /\ ncalls' = ncalls + 1
            /\ persisted' = Persisted(r.msg, getRecord(store, msgID, fail = "get").err = Nil,
                                      fail = "put")
            /\ UNCHANGED <<inbound, tracking, stepsVars>>

ReplyToNestedStep ==
    /\ CanCall
    /\ \E msg \in OutboundMsgs, opts \in NestedReplyOpts, fail \in Failures :
        LET r == ReplyToNested(store, msg, opts, NewUUID(ncalls + 1),
                               fail = "get", fail = "put", fail = "send")
        IN  /\ store' = r.store
            /\ last' = Call("ReplyToNested", msg, "", "", "", "", NoDestination, opts, fail, r)
            /\ ncalls' = ncalls + 1
            /\ persisted' = Persisted(fillIfMissing(msg, NewUUID(ncalls + 1)), TRUE,
                                      fail = "put")
            /\ UNCHANGED <<inbound, tracking, stepsVars>>

\* the call returns: its caller has the result, the messenger waits for the next
Return ==
    /\ last # Idle
    /\ last' = Idle
    /\ UNCHANGED <<store, inbound, persisted, tracking, ncalls, stepsVars>>

\* resolveDID is called: var doc, var err, i := 1
ResolveCall ==
    /\ resolve.pc = "idle"
    /\ \E n \in MaxRetries :
        resolve' = [pc |-> "loop", maxRetry |-> n, i |-> FirstAttempt,
                    doc |-> NilDoc, err |-> Nil, results |-> <<>>]
    /\ UNCHANGED <<messengerVars, exchangeVars, running>>

\* one pass of the loop: the resolver is asked, and its answer is either
\* returned or, after the sleep, followed by the next pass
ResolveAttempt ==
    /\ resolve.pc = "loop"
    /\ resolve.i <= resolve.maxRetry
    /\ \E r \in ResolverResults :
        resolve' = [resolve EXCEPT !.doc = r.doc, !.err = r.err,
                                   !.results = Append(@, r),
                                   !.i = IF Retry(r.err) THEN @ + 1 ELSE @,
                                   !.pc = IF Retry(r.err) THEN "loop" ELSE "done"]
    /\ UNCHANGED <<messengerVars, exchangeVars, running>>

\* the loop ends with no attempt left: doc and err are returned as they are
ResolveExhausted ==
    /\ resolve.pc = "loop"
    /\ resolve.i > resolve.maxRetry
    /\ resolve' = [resolve EXCEPT !.pc = "done"]
    /\ UNCHANGED <<messengerVars, exchangeVars, running>>

\* the caller takes the result
ResolveReturn ==
    /\ resolve.pc = "done"
    /\ resolve' = NotResolving
    /\ UNCHANGED <<messengerVars, exchangeVars, running>>

NextResolve ==
    \/ ResolveCall
    \/ ResolveAttempt
    \/ ResolveExhausted
    \/ ResolveReturn

\* the resolver answers every call and the sleep ends
SpecResolve ==
    /\ Init
    /\ [][NextResolve]_vars
    /\ WF_vars(ResolveAttempt)
    /\ WF_vars(ResolveExhausted)

(***************************************************************************)
(* The DID exchange: the test's steps, its goroutines and the service.     *)
(***************************************************************************)
inputVars == <<publicDIDs, registered, awaited>>
serviceVars == <<conn, network, actionOut, msgOut, nraised>>
approveVars == <<actionCh, approvers, answers, taken>>
listenVars == <<statusCh, listener>>
otherVars == <<messengerVars, resolve, inputVars, running>>

Running == crashed = ""

\* the test is at a step of this kind
At(step) ==
    /\ Running
    /\ main.pc <= Len(Script)
    /\ main.err = Nil
    /\ Script[main.pc].step = step

\* some goroutine other than g is writing the connectionID map
Writing(g) == \E h \in 1..Len(approvers) : h # g /\ approvers[h].pc = "writing"

\* Continue was called on an action event asking agent a to approve this
Approved(a, approval) ==
    \E i \in 1..Len(answers) :
        /\ answers[i].call = "Continue"
        /\ answers[i].e.agent = a /\ answers[i].e.approves = approval

ApprovedWith(a, approval) ==
    answers[CHOOSE i \in 1..Len(answers) :
                /\ answers[i].call = "Continue"
                /\ answers[i].e.agent = a /\ answers[i].e.approves = approval].opts

\* the service is given a trigger for the record of agent a (opts the options
\* of the approval, did the DID an inbound message carries, consumed the
\* message taken from the network)
Trigger(a, trigger, opts, did, consumed) ==
    LET old == conn[a].state
        new == Transition(Role(a), old, trigger)
        moved == new # old
        myDID == IF opts # Nil THEN opts.publicDID ELSE "did:peer:" \o a
    IN  /\ conn' = [conn EXCEPT ![a] =
                [state |-> new,
                 myDID |-> IF moved /\ Sends(trigger) \in {"ConnectionRequest", "ConnectionResponse"}
                           THEN myDID ELSE @.myDID,
                 theirDID |-> IF moved /\ did # "" THEN did ELSE @.theirDID,
                 posted |-> IF moved THEN Append(@.posted, new) ELSE @.posted,
                 handled |-> trigger]]
        /\ msgOut' = IF moved
                     THEN [msgOut EXCEPT ![a] =
                              Append(@, StateMsg(PostState, new, "event", "json"))]
                     ELSE msgOut
        /\ actionOut' = IF moved /\ Approval(trigger) # ""
                        THEN [actionOut EXCEPT ![a] =
                                 Append(@, ActionEvent(nraised.events + 1, a,
                                                       Approval(trigger), "event", ConnID(a)))]
                        ELSE actionOut
        /\ network' = (network \ consumed) \cup
                      IF moved /\ Sends(trigger) # ""
                      THEN {[to |-> Peer(a), type |-> Sends(trigger), did |-> myDID]}
                      ELSE {}
        /\ nraised' = [nraised EXCEPT
                          !.events = IF moved /\ Approval(trigger) # "" THEN @ + 1 ELSE @]

\* what creating an invitation may come to: the client returns the invitation
\* and it is marshalled for the log, the client returns an error, or the
\* invitation cannot be marshalled
InvitationOutcomes == {"ok", "create", "marshal"}

\* the invitation the client returns: its label is the agent, and it carries
\* the public DID it was created with, if any
Invitation(a, did) == [label |-> a, did |-> did]

\* the body of createInvitation and of createInvitationWithDID: when the client
\* fails the step returns its error and nothing is written; otherwise the
\* invitation is kept in d.invitations, and a failure to marshal it is returned
\* after that
KeepInvitation(a, opts, outcome, createErr, marshalErr) ==
    IF outcome = "create"
    THEN /\ main' = [main EXCEPT !.err = <<createErr, "client error">>]
         /\ UNCHANGED <<serviceVars, invitations>>
    ELSE /\ Trigger(a, "CreateInvitation", opts, "", {})
         /\ invitations' = (a :> Invitation(a, IF opts = Nil THEN "" ELSE opts.publicDID))
                                @@ invitations
         /\ main' = IF outcome = "marshal"
                    THEN [main EXCEPT !.err = <<marshalErr, "json error">>]
                    ELSE [main EXCEPT !.pc = @ + 1]

\* createInvitation: the client creates the invitation, the step keeps it
CreateInvitationStep ==
    /\ At("createInvitation")
    /\ \E outcome \in InvitationOutcomes :
        KeepInvitation(Script[main.pc].agent, Nil, outcome,
                       "create invitation", "marshal invitation")
    /\ UNCHANGED <<otherVars, approveVars, listenVars, connectionID, crashed>>

\* createInvitationWithDID: the client creates the invitation with the public
\* DID of the agent, the step keeps it
CreateInvitationWithDIDStep ==
    /\ At("createInvitationWithDID")
    /\ \E outcome \in InvitationOutcomes :
        KeepInvitation(Script[main.pc].agent,
                       [publicDID |-> publicDIDs[Script[main.pc].agent]], outcome,
                       "failed to create invitation", "failed to marshal invitation")
    /\ UNCHANGED <<otherVars, approveVars, listenVars, connectionID, crashed>>

\* receiveInvitation: the client handles the inviter's invitation; when it
\* fails the step returns its error and nothing is written, otherwise the step
\* writes the connection id it returns into the connectionID map
ReceiveInvitationStep ==
    /\ At("receiveInvitation")
    /\ Inviter \in DOMAIN invitations
    /\ \E handled \in BOOLEAN :
        LET a == Script[main.pc].agent
        IN  IF handled
            THEN /\ Trigger(a, "Invitation", Nil, invitations[Inviter].did, {})
                 /\ connectionID' = [connectionID EXCEPT ![a] = ConnID(a)]
                 /\ crashed' \in RaceOutcomes(Writing(0))
                 /\ main' = [main EXCEPT !.pc = @ + 1]
            ELSE /\ main' = [main EXCEPT !.err =
                                <<"failed to handle invitation", "client error">>]
                 /\ UNCHANGED <<serviceVars, connectionID, crashed>>
    /\ UNCHANGED <<otherVars, approveVars, listenVars, invitations>>

\* approveRequest: a goroutine is started on the agent's action channel
approveRequest(a) == Append(approvers, [agent |-> a, pc |-> "range", e |-> NoEvent])

ApproveRequestStep ==
    /\ At("approveRequest")
    /\ approvers' = approveRequest(Script[main.pc].agent)
    /\ main' = [main EXCEPT !.pc = @ + 1]
    /\ UNCHANGED <<otherVars, serviceVars, listenVars, actionCh, answers, taken,
                   connectionID, invitations, crashed>>

\* an action event raised by the service reaches the agent's action channel
DeliverAction ==
    /\ Running
    /\ \E a \in Agents :
        /\ actionOut[a] # <<>>
        /\ Len(actionCh[a]) < ActionChSize
        /\ actionCh' = [actionCh EXCEPT ![a] = Append(@, Head(actionOut[a]))]
        /\ actionOut' = [actionOut EXCEPT ![a] = Tail(@)]
    /\ UNCHANGED <<otherVars, listenVars, approvers, answers, taken, conn, network,
                   msgOut, nraised, connectionID, invitations, main, crashed>>

\* for e := range d.actionCh[agentID]
ApproverReceive ==
    /\ Running
    /\ \E g \in 1..Len(approvers) :
        LET a == approvers[g].agent
        IN  /\ approvers[g].pc = "range"
            /\ actionCh[a] # <<>>
            /\ approvers' = [approvers EXCEPT ![g] =
                                 [agent |-> a, pc |-> "switch", e |-> Head(actionCh[a])]]
            /\ taken' = Append(taken, Head(actionCh[a]))
            /\ actionCh' = [actionCh EXCEPT ![a] = Tail(@)]
    /\ UNCHANGED <<otherVars, serviceVars, listenVars, answers, connectionID,
                   invitations, main, crashed>>

\* a bug: the switch has no case for an error, which is answered as an event is
ApproverSwitchNoErrorCase ==
    /\ Running
    /\ \E g \in 1..Len(approvers) :
        /\ approvers[g].pc = "switch"
        /\ IF approvers[g].e.props = "error"
           THEN /\ crashed' = crashed
                /\ approvers' = [approvers EXCEPT ![g].pc = "continue"]
           ELSE /\ crashed' \in RaceOutcomes(Writing(g))
                /\ approvers' = [approvers EXCEPT ![g].pc = "writing"]
    /\ UNCHANGED <<otherVars, serviceVars, listenVars, actionCh, answers, taken,
                   connectionID, invitations, main>>

\* switch v := e.Properties.(type): an error panics, an event has its
\* connection id written into the connectionID map, and the write begins
ApproverSwitch ==
    /\ Running
    /\ \E g \in 1..Len(approvers) :
        /\ approvers[g].pc = "switch"
        /\ IF approvers[g].e.props = "error"
           THEN /\ crashed' = "panic"
                /\ UNCHANGED approvers
           ELSE /\ crashed' \in RaceOutcomes(Writing(g))
                /\ approvers' = [approvers EXCEPT ![g].pc = "writing"]
    /\ UNCHANGED <<otherVars, serviceVars, listenVars, actionCh, answers, taken,
                   connectionID, invitations, main>>

\* the write of d.connectionID[agentID] ends
ApproverWritten ==
    /\ Running
    /\ \E g \in 1..Len(approvers) :
        /\ approvers[g].pc = "writing"
        /\ connectionID' = [connectionID EXCEPT ![approvers[g].agent] = approvers[g].e.conn]
        /\ approvers' = [approvers EXCEPT ![g].pc = "continue"]
    /\ UNCHANGED <<otherVars, serviceVars, listenVars, actionCh, answers, taken,
                   invitations, main, crashed>>

\* clientOpts := d.getClientOptions(agentID); e.Continue(clientOpts)
ApproverContinue ==
    /\ Running
    /\ \E g \in 1..Len(approvers) :
        /\ approvers[g].pc = "continue"
        /\ answers' = Append(answers,
                             [e |-> approvers[g].e, call |-> "Continue",
                              opts |-> getClientOptions(publicDIDs, approvers[g].agent)])
        /\ approvers' = [approvers EXCEPT ![g].pc = "range", ![g].e = NoEvent]
    /\ UNCHANGED <<otherVars, serviceVars, listenVars, actionCh, taken, connectionID,
                   invitations, main, crashed>>

\* a state message emitted by the service reaches the agent's status channel
DeliverStateMsg ==
    /\ Running
    /\ \E a \in Agents :
        /\ msgOut[a] # <<>>
        /\ Len(statusCh[a]) < StatusChSize
        /\ statusCh' = [statusCh EXCEPT ![a] = Append(@, Head(msgOut[a]))]
        /\ msgOut' = [msgOut EXCEPT ![a] = Tail(@)]
    /\ UNCHANGED <<otherVars, approveVars, listener, conn, network, actionOut,
                   nraised, connectionID, invitations, main, crashed>>

\* eventListener, for e := range statusCh: an error, or a post-state message
\* whose payload is no JSON, panics; a post-state message has its flags sent
ListenerReceive ==
    /\ Running
    /\ \E a \in Agents :
        LET e == Head(statusCh[a])
        IN  /\ listener[a].pc = "range"
            /\ statusCh[a] # <<>>
            /\ statusCh' = [statusCh EXCEPT ![a] = Tail(@)]
            /\ IF e.props = "error" \/ (e.type = PostState /\ e.payload # "json")
               THEN /\ crashed' = "panic"
                    /\ UNCHANGED listener
               ELSE /\ listener' = [listener EXCEPT ![a] =
                           [pc |-> IF Flags(registered[a], e) = <<>> THEN "range" ELSE "send",
                            pending |-> Flags(registered[a], e)]]
                    /\ UNCHANGED crashed
    /\ UNCHANGED <<otherVars, approveVars, serviceVars, connectionID, invitations, main>>

\* d.postStatesFlag[agentID][state] <- true meets the receive of
\* waitForPostEvent on the channel of the same state
Signal ==
    /\ At("waitForPostEvent")
    /\ LET a == Script[main.pc].agent
       IN  /\ listener[a].pc = "send"
           /\ Head(listener[a].pending) = awaited[a][main.j]
           /\ listener' = [listener EXCEPT ![a] =
                   [pc |-> IF Tail(@.pending) = <<>> THEN "range" ELSE "send",
                    pending |-> Tail(@.pending)]]
           /\ main' = IF main.j = Len(awaited[a])
                      THEN [main EXCEPT !.pc = @ + 1, !.j = 1]
                      ELSE [main EXCEPT !.j = @ + 1]
    /\ UNCHANGED <<otherVars, approveVars, serviceVars, statusCh, connectionID,
                   invitations, crashed>>

\* the service takes a protocol message addressed to an agent
ReceiveMessage ==
    /\ Running
    /\ \E m \in network :
        Trigger(m.to, m.type, Nil, m.did, {m})
    /\ UNCHANGED <<otherVars, approveVars, listenVars, connectionID, invitations,
                   main, crashed>>

\* the service makes a transition whose approval was given with Continue
Accept ==
    /\ Running
    /\ \E a \in Agents, t \in {"AcceptInvitation", "AcceptRequest", "AcceptResponse"} :
        /\ Approved(a, t)
        /\ Transition(Role(a), conn[a].state, t) # conn[a].state
        /\ Trigger(a, t, ApprovedWith(a, t), "", {})
    /\ UNCHANGED <<otherVars, approveVars, listenVars, connectionID, invitations,
                   main, crashed>>

\* what the goroutines and the service can do while the test waits
Progress ==
    \/ DeliverAction
    \/ ApproverReceive
    \/ ApproverSwitch
    \/ ApproverWritten
    \/ ApproverContinue
    \/ DeliverStateMsg
    \/ ListenerReceive
    \/ Signal
    \/ ReceiveMessage
    \/ Accept

\* waitForPostEvent, case <-time.After(5 * time.Second): the five seconds have
\* passed before the flag was taken, whatever the goroutines and the service
\* have done or can still do
WaitTimeout ==
    /\ At("waitForPostEvent")
    /\ main' = [main EXCEPT !.err =
                    <<"timeout waiting for post state event",
                      awaited[Script[main.pc].agent][main.j]>>]
    /\ UNCHANGED <<otherVars, approveVars, listenVars, serviceVars, connectionID,
                   invitations, crashed>>

\* validateConnection: the record of the agent's connection id is read from
\* the service and its state compared with the state expected
validateConnection(a, stateValue) ==
    IF connectionID[a] \notin {ConnID(b) : b \in {c \in Agents : conn[c].state # "null"}}
    THEN <<"failed to query connection by id", "data not found">>
    ELSE IF (CHOOSE b \in Agents : ConnID(b) = connectionID[a]) # a
             \/ conn[a].state # stateValue
    THEN <<"state from connection not equal", stateValue>>
    ELSE Nil

ValidateConnectionStep ==
    /\ At("validateConnection")
    /\ \E queried \in BOOLEAN :
        LET a == Script[main.pc].agent
            err == IF queried
                   THEN validateConnection(a, Script[main.pc].state)
                   ELSE <<"failed to query connection by id", "client error">>
        IN  main' = IF err = Nil
                    THEN [main EXCEPT !.pc = @ + 1, !.validated = @ \cup {a}]
                    ELSE [main EXCEPT !.err = err]
    /\ crashed' \in RaceOutcomes(Writing(0))
    /\ UNCHANGED <<otherVars, approveVars, listenVars, serviceVars, connectionID,
                   invitations>>

NextHandshake ==
    \/ CreateInvitationStep
    \/ CreateInvitationWithDIDStep
    \/ ReceiveInvitationStep
    \/ ApproveRequestStep
    \/ DeliverAction
    \/ ApproverReceive
    \/ ApproverSwitch
    \/ ApproverWritten
    \/ ApproverContinue
    \/ DeliverStateMsg
    \/ ListenerReceive
    \/ Signal
    \/ WaitTimeout
    \/ ReceiveMessage
    \/ Accept
    \/ ValidateConnectionStep

\* a protocol message reaches the service from elsewhere than the handshake:
\* a duplicate, a late or an unexpected message
UnexpectedMessage ==
    /\ Running
    /\ \E a \in Agents, t \in MsgTypes :
        Trigger(a, t, Nil, "did:peer:" \o Peer(a), {})
    /\ UNCHANGED <<otherVars, approveVars, listenVars, connectionID, invitations,
                   main, crashed>>

\* a handshake that did not end in time is abandoned
HandshakeTimeout ==
    /\ Running
    /\ \E a \in Agents :
        /\ conn[a].state \notin Terminal \cup {"null"}
        /\ Trigger(a, "Timeout", Nil, "", {})
    /\ UNCHANGED <<otherVars, approveVars, listenVars, connectionID, invitations,
                   main, crashed>>

\* an API of the client is called, whatever the state of the record
ApiTriggers ==
    {"CreateInvitation", "Invitation", "AcceptInvitation", "AcceptRequest",
     "AcceptResponse"}

ApiCall ==
    /\ Running
    /\ \E a \in Agents, t \in ApiTriggers :
        Trigger(a, t, getClientOptions(publicDIDs, a), "", {})
    /\ UNCHANGED <<otherVars, approveVars, listenVars, connectionID, invitations,
                   main, crashed>>

NextExchange ==
    \/ ApiCall
    \/ UnexpectedMessage
    \/ ReceiveMessage
    \/ HandshakeTimeout

\* approveRequest is called for an agent, whatever was called before
ApproveAny ==
    /\ Running
    /\ Len(approvers) < MaxApprovers
    /\ \E a \in Agents : approvers' = approveRequest(a)
    /\ UNCHANGED <<otherVars, serviceVars, listenVars, actionCh, answers, taken,
                   connectionID, invitations, main, crashed>>

\* the service raises an action event for an agent: an event of the DID
\* exchange, or an error
RaiseAction ==
    /\ Running
    /\ nraised.events < MaxEvents
    /\ \E a \in Agents, props \in {"event", "error"}, c \in ConnIDs :
        actionOut' = [actionOut EXCEPT ![a] =
                         Append(@, ActionEvent(nraised.events + 1, a, "AcceptRequest",
                                               props, c))]
    /\ nraised' = [nraised EXCEPT !.events = @ + 1]
    /\ UNCHANGED <<otherVars, approveVars, listenVars, conn, network, msgOut,
                   connectionID, invitations, main, crashed>>

NextApprove ==
    \/ ApproveAny
    \/ RaiseAction
    \/ DeliverAction
    \/ ApproverReceive
    \/ ApproverSwitch
    \/ ApproverWritten
    \/ ApproverContinue

Next ==
    \/ HandleInboundStep
    \/ SendStep
    \/ SendToDestinationStep
    \/ ReplyToStep
    \/ ReplyToNestedStep
    \/ Return

Spec == Init /\ [][Next]_vars

\* the same messenger, with the history of persisted metadata recorded
InitRoundTrip ==
    /\ store = Nil
    /\ inbound = Nil
    /\ persisted = Nil
    /\ tracking = TRUE
    /\ ncalls = 0
    /\ last = Idle
    /\ resolve = NotResolving
    /\ running = <<>>
    /\ NoScenario

SpecRoundTrip == InitRoundTrip /\ [][Next]_vars

\* the agent restarts between two calls: the framework's store provider is an
\* in-memory provider made anew, and the new Messenger opens its store on it
Restart ==
    /\ last = Idle
    /\ store # Nil
    /\ store' = Nil
    /\ UNCHANGED <<inbound, persisted, tracking, ncalls, last, stepsVars>>

NextRestart ==
    \/ HandleInboundStep
    \/ SendStep
    \/ SendToDestinationStep
    \/ ReplyToStep
    \/ ReplyToNestedStep
    \/ Return
    \/ Restart

SpecRestart == Init /\ [][NextRestart]_vars

\* the scenario of the handshake, for every choice of its inputs
InitHandshake ==
    /\ store = Nil
    /\ inbound = Nil
    /\ persisted = Nil
    /\ tracking = FALSE
    /\ ncalls = 0
    /\ last = Idle
    /\ resolve = NotResolving
    /\ running = <<>>
    /\ \E pubs \in PublicDIDChoices, reg \in [Agents -> StateLists],
          aw \in [Agents -> StateLists] :
        InitExchange(pubs, reg, aw, 1)

\* no scenario is run, the agents have public DIDs or not
InitApprove ==
    /\ store = Nil
    /\ inbound = Nil
    /\ persisted = Nil
    /\ tracking = FALSE
    /\ ncalls = 0
    /\ last = Idle
    /\ resolve = NotResolving
    /\ running = <<>>
    /\ \E pubs \in PublicDIDChoices :
        InitExchange(pubs, [a \in Agents |-> <<"completed">>],
                     [a \in Agents |-> <<"completed">>], Len(Script) + 1)

SpecApprove == InitApprove /\ [][NextApprove]_vars

\* the service on its own: any API call and any message, in any order
SpecExchange == InitApprove /\ [][NextExchange]_vars

\* the steps of the scenario other than the running out of a wait
HandshakeSteps ==
    \/ CreateInvitationStep
    \/ CreateInvitationWithDIDStep
    \/ ReceiveInvitationStep
    \/ ApproveRequestStep
    \/ ValidateConnectionStep

\* the test runs its steps, the goroutines are scheduled and the service
\* handles what it is given; nothing is assumed of when the five seconds of a
\* wait run out
SpecHandshake ==
    /\ InitHandshake
    /\ [][NextHandshake]_vars
    /\ WF_vars(HandshakeSteps \/ Progress)

(***************************************************************************)
(* The claims.  A claim about what a call did with the store it found is   *)
(* a property of the call's step (store is the store before the call,      *)
(* store' and last' what the call left); a claim about the call's result   *)
(* alone is an invariant of last.                                          *)
(***************************************************************************)
Dispatched(c) == c.calls # <<>>

\* the fields of a stored JSON record
StoredThreadID(st, key) == Get(st[key], "thread_id", "")
StoredParentThreadID(st, key) == Get(st[key], "parent_thread_id", "")
StoredMyDID(st, key) == Get(st[key], "my_did", "")
StoredTheirDID(st, key) == Get(st[key], "their_did", "")

\* C1: a ReplyTo(msgID, msg) that reaches the dispatcher sends a message whose
\* ~thread has thid = the thread_id of the record stored for msgID, has pthid =
\* the record's parent_thread_id exactly when that is not empty, and has nothing
\* else; the ~thread the caller put on msg is gone.
C1_ReplyToThread ==
    [][(last'.op = "ReplyTo" /\ Dispatched(last')) =>
          LET thread == last'.calls[1].msg[jsonThread]
              pth == StoredParentThreadID(store, last'.msgID)
          IN  /\ last'.msgID \in DOMAIN store
              /\ jsonThreadID \in DOMAIN thread
              /\ thread[jsonThreadID] = StoredThreadID(store, last'.msgID)
              /\ (jsonParentThreadID \in DOMAIN thread) <=> (pth # "")
              /\ pth # "" => thread[jsonParentThreadID] = pth
              /\ DOMAIN thread \subseteq {jsonThreadID, jsonParentThreadID}]_vars

\* a reply to a message without a parent thread, whose caller had put a ~thread
\* with another thid and a pthid on it
C1_Witness ==
    /\ last.op = "ReplyTo" /\ Dispatched(last)
    /\ jsonThread \in DOMAIN last.msg
    /\ last.msg[jsonThread] = ((jsonThreadID :> "t1") @@ (jsonParentThreadID :> "p1"))
    /\ last.calls[1].msg[jsonThread] = (jsonThreadID :> "m1")

\* C2: a Send that reaches the dispatcher sends a message whose ~thread is
\* exactly {thid: @id}, @id being the caller's or, when the caller gave none,
\* the generated one; the ~thread the caller supplied, pthid included, is gone.
C2_SendThread ==
    (last.op = "Send" /\ Dispatched(last)) =>
        LET sent == last.calls[1].msg
        IN  /\ jsonID \in DOMAIN sent /\ jsonThread \in DOMAIN sent
            /\ sent[jsonID] # ""
            /\ sent[jsonThread] = (jsonThreadID :> sent[jsonID])
            /\ sent[jsonID] = IF Get(last.msg, jsonID, "") # ""
                              THEN last.msg[jsonID] ELSE NewUUID(ncalls)

\* a Send of a message without @id that carried a ~thread with thid and pthid
C2_Witness ==
    /\ last.op = "Send" /\ Dispatched(last)
    /\ jsonID \notin DOMAIN last.msg
    /\ jsonThread \in DOMAIN last.msg
    /\ jsonParentThreadID \in DOMAIN last.msg[jsonThread]
    /\ last.calls[1].msg[jsonThread] = (jsonThreadID :> NewUUID(ncalls))

\* C3: after a successful HandleInbound(msg, myDID, theirDID), @id is not empty
\* and the store holds under @id the record {my_did: myDID, their_did: theirDID,
\* thread_id: ~thread.thid when the message has one, else @id, parent_thread_id:
\* ~thread.pthid}; a ReplyTo looking up @id next finds that record.
C3_InboundThread(msg) ==
    LET thread == Get(msg, jsonThread, Nil)
    IN  IF Get(thread, jsonThreadID, "") # "" THEN thread[jsonThreadID] ELSE msg[jsonID]

C3_InboundRecorded ==
    (last.op = "HandleInbound" /\ last.err = Nil) =>
        LET id == Get(last.msg, jsonID, "")
            found == getRecord(store, id, FALSE)
        IN  /\ id # ""
            /\ id \in DOMAIN store
            /\ StoredMyDID(store, id) = last.myDID
            /\ StoredTheirDID(store, id) = last.theirDID
            /\ StoredThreadID(store, id) = C3_InboundThread(last.msg)
            /\ StoredParentThreadID(store, id)
                   = Get(Get(last.msg, jsonThread, Nil), jsonParentThreadID, "")
            /\ DOMAIN store[id] \subseteq
                   {"my_did", "their_did", "thread_id", "parent_thread_id"}
            /\ found.err = Nil
            /\ found.rec = record(last.myDID, last.theirDID, C3_InboundThread(last.msg),
                                  StoredParentThreadID(store, id), Nil)

\* a message of thread t1 with parent p1 has been handled, and so has, in another
\* state, one without ~thread
C3_Witness ==
    /\ last.op = "HandleInbound" /\ last.err = Nil
    /\ last.msg[jsonID] = "m1"
    /\ StoredThreadID(store, "m1") = "t1"
    /\ StoredParentThreadID(store, "m1") = "p1"
    /\ StoredMyDID(store, "m1") = "did:c"

\* C4: a ReplyTo(msgID, msg) calls the dispatcher's SendToDID once, with the
\* my_did and their_did HandleInbound recorded for msgID.
C4_ReplyToInboundDIDs ==
    (last.op = "ReplyTo" /\ Dispatched(last) /\ last.msgID \in DOMAIN inbound) =>
        /\ Len(last.calls) = 1
        /\ last.calls[1].fn = "SendToDID"
        /\ last.calls[1].a = inbound[last.msgID].MyDID
        /\ last.calls[1].b = inbound[last.msgID].TheirDID

\* C5, as amended: a ReplyToNested(msg, opts) that reaches the dispatcher sends a
\* message whose ~thread is exactly {pthid: T}, without thid, T being
\* opts.thread_id when supplied, else the thread_id of the record stored under
\* opts.msg_id when opts.msg_id is supplied, else the empty string; the ~thread the
\* caller supplied is gone.
C5_NestedParent(c, st) ==
    IF c.opts.ThreadID # "" THEN c.opts.ThreadID
    ELSE IF c.opts.MsgID # "" THEN StoredThreadID(st, c.opts.MsgID)
    ELSE ""

C5_NestedThread ==
    (last.op = "ReplyToNested" /\ Dispatched(last)) =>
        /\ last.opts.ThreadID = "" /\ last.opts.MsgID # "" => last.opts.MsgID \in DOMAIN store
        /\ last.calls[1].msg[jsonThread] = (jsonParentThreadID :> C5_NestedParent(last, store))

\* C5 as stated: T is opts.thread_id when supplied and otherwise the thread_id of
\* the record identified by opts.msg_id, so that there is such a record.
C5_NestedThreadOriginal ==
    (last.op = "ReplyToNested" /\ Dispatched(last)) =>
        \/ /\ last.opts.ThreadID # ""
           /\ last.calls[1].msg[jsonThread] = (jsonParentThreadID :> last.opts.ThreadID)
        \/ /\ last.opts.ThreadID = ""
           /\ last.opts.MsgID \in DOMAIN store
           /\ last.calls[1].msg[jsonThread]
                  = (jsonParentThreadID :> StoredThreadID(store, last.opts.MsgID))

\* a nested reply whose parent thread came from the record of m1, sent for a
\* message on which the caller had put a ~thread with a thid
C5_Witness ==
    /\ last.op = "ReplyToNested" /\ Dispatched(last)
    /\ last.opts.ThreadID = "" /\ last.opts.MsgID = "m1"
    /\ jsonThread \in DOMAIN last.msg /\ jsonThreadID \in DOMAIN last.msg[jsonThread]
    /\ last.calls[1].msg[jsonThread] = (jsonParentThreadID :> "m1")

\* C6: in ReplyToNested each of opts.thread_id, opts.their_did, opts.my_did the
\* caller supplied stays as supplied; when opts.msg_id names a stored record, each
\* one left empty is filled from that record; when all three are supplied the
\* store is not read: a failing Get or an absent record is no error.
C6_AllSupplied(o) == o.ThreadID # "" /\ o.TheirDID # "" /\ o.MyDID # ""

C6_NestedOptions ==
    last.op = "ReplyToNested" =>
        LET o == last.opts
            f == last.optsOut
        IN  /\ o.ThreadID # "" => f.ThreadID = o.ThreadID
            /\ o.TheirDID # "" => f.TheirDID = o.TheirDID
            /\ o.MyDID # "" => f.MyDID = o.MyDID
            /\ (Dispatched(last) /\ ~C6_AllSupplied(o) /\ o.MsgID # "") =>
                  /\ o.MsgID \in DOMAIN store
                  /\ o.ThreadID = "" => f.ThreadID = StoredThreadID(store, o.MsgID)
                  /\ o.TheirDID = "" => f.TheirDID = StoredTheirDID(store, o.MsgID)
                  /\ o.MyDID = "" => f.MyDID = StoredMyDID(store, o.MsgID)
            /\ Dispatched(last) =>
                  /\ last.calls[1].a = f.MyDID
                  /\ last.calls[1].b = f.TheirDID
            /\ (C6_AllSupplied(o) /\ last.fail \in {"none", "get"}) =>
                  last.err = Nil /\ Dispatched(last)

\* their_did was supplied, thread_id and my_did came from the record of m1
C6_Witness ==
    /\ last.op = "ReplyToNested" /\ Dispatched(last)
    /\ last.opts = [ThreadID |-> "", TheirDID |-> "did:f", MyDID |-> "", MsgID |-> "m1"]
    /\ last.optsOut = [ThreadID |-> "t1", TheirDID |-> "did:f", MyDID |-> "did:a",
                       MsgID |-> "m1"]

\* C7: a SendToDestination(msg, sender, destination) hands the dispatcher's Send
\* a message without ~thread, with the sender and the destination it was given.
C7_SendToDestination ==
    last.op = "SendToDestination" =>
        /\ last.fail # "put" => Dispatched(last)
        /\ Dispatched(last) =>
              /\ Len(last.calls) = 1
              /\ last.calls[1].fn = "Send"
              /\ jsonThread \notin DOMAIN last.calls[1].msg
              /\ last.calls[1].a = last.sender
              /\ last.calls[1].b = last.dest

\* the caller's message carried a ~thread, and the routed destination was used
C7_Witness ==
    /\ last.op = "SendToDestination" /\ Dispatched(last)
    /\ jsonThread \in DOMAIN last.msg
    /\ last.calls[1].b.RoutingKeys = <<"key4">>

\* C8: every message Send, SendToDestination, ReplyTo or ReplyToNested hands to
\* the dispatcher has a non-empty @id: the caller's when the caller gave a
\* non-empty one, a generated one otherwise.
C8_OutboundID ==
    (last.op \in {"Send", "SendToDestination", "ReplyTo", "ReplyToNested"}) =>
        \A i \in 1..Len(last.calls) :
            LET sent == last.calls[i].msg
                given == Get(last.msg, jsonID, "")
            IN  /\ jsonID \in DOMAIN sent
                /\ sent[jsonID] # ""
                /\ given # "" => sent[jsonID] = given
                /\ given = "" => sent[jsonID] = NewUUID(ncalls)

\* a reply whose message came with an empty @id left with a generated one
C8_Witness ==
    /\ last.op = "ReplyTo" /\ Dispatched(last)
    /\ jsonID \in DOMAIN last.msg /\ last.msg[jsonID] = ""
    /\ last.calls[1].msg[jsonID] = NewUUID(ncalls)

\* C9: HandleInbound of a message whose @id is empty or absent returns an error,
\* writes nothing to the store, reads no metadata (a failing Get does not show)
\* and leaves the message as it was.
C9_InboundWithoutID ==
    [][(last'.op = "HandleInbound" /\ Get(last'.msg, jsonID, "") = "") =>
          /\ last'.err = <<"message-id is absent and can't be processed">>
          /\ store' = store
          /\ inbound' = inbound
          /\ last'.out = last'.msg]_vars

\* a message without @id on thread t1, while metadata is stored for thread t1
C9_Witness ==
    /\ last.op = "HandleInbound" /\ jsonID \notin DOMAIN last.msg
    /\ jsonThread \in DOMAIN last.msg
    /\ Get(last.msg[jsonThread], jsonThreadID, "") = "t1"
    /\ metadataKey("t1") \in DOMAIN store
    /\ "metadata" \in DOMAIN store[metadataKey("t1")]
    /\ last.err # Nil

\* C10: a ReplyTo(msgID, msg) with no record stored under msgID returns an error
\* (the store's data-not-found, unless the Get itself failed), does not call the
\* dispatcher and leaves the store as it was.
C10_ReplyToUnknown ==
    [][(last'.op = "ReplyTo" /\ last'.msgID \notin DOMAIN store) =>
          /\ last'.err # Nil
          /\ last'.fail # "get" => ErrorsIs(last'.err, ErrDataNotFound)
          /\ ~Dispatched(last')
          /\ store' = store]_vars

\* a reply to m2, never received, with metadata attached to the message
C10_Witness ==
    /\ last.op = "ReplyTo" /\ last.msgID = "m2" /\ last.fail = "none"
    /\ Get(last.msg, jsonMetadata, Nil) = M1
    /\ Get(last.msg, jsonID, "") = "m1"
    /\ metadataKey("m1") \notin DOMAIN store
    /\ last.err # Nil

\* C11: a message record, once HandleInbound has stored it, is never changed:
\* no later call (HandleInbound with the same @id included, and every outbound
\* operation) leaves another value under that message's id.
C11_RecordNeverMutated ==
    [][\A id \in DOMAIN inbound :
          id \in DOMAIN store => (id \in DOMAIN store' /\ store'[id] = store[id])]_vars

\* C12: the message an outbound operation hands to the dispatcher carries no
\* _internal_metadata key.
C12_MetadataNotSent ==
    last.op \in {"Send", "SendToDestination", "ReplyTo", "ReplyToNested"} =>
        \A i \in 1..Len(last.calls) : jsonMetadata \notin DOMAIN last.calls[i].msg

\* C15: an outbound operation calls the dispatcher at most once; when the
\* dispatcher fails, the call returns the dispatcher's error, and when the
\* dispatcher succeeds the call returns no error.
C15_DispatcherFailure ==
    last.op \in {"Send", "SendToDestination", "ReplyTo", "ReplyToNested"} =>
        /\ Len(last.calls) <= 1
        /\ (Dispatched(last) /\ last.fail = "send") => last.err = ErrTransport
        /\ (Dispatched(last) /\ last.fail # "send") => last.err = Nil
        /\ ~Dispatched(last) => last.err # Nil

\* the transport refuses the one message a Send hands it
C15_Witness ==
    /\ last.op = "Send" /\ last.fail = "send"
    /\ Len(last.calls) = 1
    /\ last.err = ErrTransport

\* C20: a Send of a message with metadata that did not fail in the store leaves
\* that metadata under metadata_<@id>, the @id being the thread the message was
\* sent on.
C20_SendMetadataKey ==
    (/\ last.op = "Send"
     /\ DOMAIN Metadata(last.msg) # {}
     /\ last.fail # "put") =>
        /\ metadataKey(ID(last.out)) \in DOMAIN store
        /\ Get(store[metadataKey(ID(last.out))], "metadata", Nil) = Metadata(last.msg)

\* C13: a HandleInbound that succeeds on a thread for which an outbound call
\* persisted metadata M, no later outbound call on that thread having persisted
\* other metadata, leaves M under _internal_metadata of the message.
C13_MetadataRoundTrip ==
    (/\ last.op = "HandleInbound"
     /\ last.err = Nil
     /\ ThreadID(last.msg).val \in DOMAIN persisted) =>
        Get(last.out, jsonMetadata, Nil) = persisted[ThreadID(last.msg).val]

\* C14: a ReplyTo for a message HandleInbound has recorded finds the record,
\* whether or not the agent restarted in between.
C14_ReplyAfterRestart ==
    (/\ last.op = "ReplyTo"
     /\ last.msgID \in DOMAIN inbound
     /\ last.fail = "none") =>
        ~ErrorsIs(last.err, ErrDataNotFound)

\* the resolver's error says that the DID does not exist
IsDIDNotExist(e) == e # Nil /\ Contains(e, DIDNotExist)

\* C16: resolveDID asks the resolver at most maxRetry times, and only again
\* after a 'DID does not exist' error; what it returns is the document of the
\* first success, or the first error of another kind, or, after maxRetry 'DID
\* does not exist' errors, the last of them.
C16_Attempts ==
    LET n == Len(resolve.results)
        lastResult == resolve.results[n]
    IN  /\ n <= resolve.maxRetry
        /\ \A k \in 1..(n - 1) : IsDIDNotExist(resolve.results[k].err)
        /\ resolve.pc = "loop" => \A k \in 1..n : IsDIDNotExist(resolve.results[k].err)
        /\ (resolve.pc = "done" /\ n >= 1) =>
              /\ resolve.doc = lastResult.doc
              /\ resolve.err = lastResult.err
              /\ IsDIDNotExist(lastResult.err) => n = resolve.maxRetry

\* C16: (continued) and every call of resolveDID returns.
C16_ResolveDID == []C16_Attempts /\ (resolve.pc = "loop" ~> resolve.pc = "done")

\* three attempts allowed, three times 'DID does not exist', the last one returned
C16_Witness ==
    /\ resolve.pc = "done" /\ resolve.maxRetry = 3
    /\ Len(resolve.results) = 3
    /\ resolve.results[1].err # resolve.results[3].err
    /\ resolve.err = resolve.results[3].err
    /\ IsDIDNotExist(resolve.err)

\* the order of the states of a connection record
StateRank(state) ==
    CASE state = "null" -> 0
      [] state = "invited" -> 1
      [] state = "requested" -> 2
      [] state = "responded" -> 3
      [] state = "completed" -> 4
      [] OTHER -> 5

\* the test waits for the states it registered, in the order of the handshake
AwaitsRegistered ==
    \A a \in Agents :
        /\ awaited[a] = registered[a]
        /\ \A k \in 1..(Len(awaited[a]) - 1) :
              StateRank(awaited[a][k]) < StateRank(awaited[a][k + 1])

\* both records are completed, and each transition had its post-state message
RecordsCompleted ==
    \A a \in Agents :
        /\ conn[a].state = "completed"
        /\ conn[a].posted = <<"invited", "requested", "responded", "completed">>

\* both records are completed, each transition had its post-state message,
\* every wait was signalled and both validations succeeded: every step of the
\* scenario returned without error
HandshakeDone ==
    /\ RecordsCompleted
    /\ main.pc > Len(Script)
    /\ main.err = Nil
    /\ main.validated = Agents
    /\ crashed = ""

\* the invitation is created and received and both agents approve: the first
\* four steps of the scenario have returned without error
BothApprove == main.pc > 4

\* the errors of a step that does not get what it asks of the client or does
\* not get it in time: the client does not create the invitation, it cannot be
\* marshalled, the client does not handle it or fails the query of the
\* connection, or the five seconds of a wait run out
ClientOrTimerFailed ==
    /\ main.err # Nil
    /\ \/ main.err[1] \in {"create invitation", "marshal invitation",
                           "failed to create invitation", "failed to marshal invitation",
                           "failed to handle invitation",
                           "timeout waiting for post state event"}
       \/ main.err = <<"failed to query connection by id", "client error">>

\* what does hold of the scenario: the records reach completed with their
\* post-state messages once both agents approve, whatever the test then does;
\* and where the test waits for the states it registered in the order of the
\* handshake, the scenario ends with every wait signalled and both
\* validations successful unless a call of the client fails or the five
\* seconds of a wait run out
RegisteredOrderCompletes ==
    /\ BothApprove ~> RecordsCompleted
    /\ [](AwaitsRegistered => (main.err = Nil \/ ClientOrTimerFailed))
    /\ AwaitsRegistered ~> (HandshakeDone \/ ClientOrTimerFailed)

\* C17: in the scenario of the handshake, once the invitation is created and
\* received and both agents approve every action event, both records reach
\* completed, a post-state message is emitted for each transition, every
\* state the test waits for is signalled and validateConnection(agent,
\* "completed") succeeds for both agents.
C17_HappyPath == BothApprove ~> HandshakeDone

\* a record in state s may be found in state t next
Forward(s, t) ==
    \/ s = t
    \/ t = "abandoned" /\ s \notin Terminal
    \/ t # "abandoned" /\ s # "abandoned" /\ StateRank(s) < StateRank(t)

\* C18: whatever API is called and whatever message arrives, in any order, a
\* connection record stays in its state, or moves to a later state of null <
\* invited < requested < responded < completed, or moves from a state that is
\* not terminal to abandoned.
C18_StateForward ==
    [][\A a \in Agents : Forward(conn[a].state, conn[a].state')]_vars

\* a ConnectionRequest arrived once more when the inviter's record was completed
C18_Witness ==
    /\ conn[Inviter].state = "completed"
    /\ conn[Inviter].handled = "ConnectionRequest"

\* the calls made on an action event
AnswersTo(e) == {k \in 1..Len(answers) : answers[k].e.id = e.id}

\* C19: every action event with no error that a goroutine took from an action
\* channel gets one Continue, and no Stop, with the agent's public DID as
\* options when the agent has one and nil otherwise: no second call is made
\* on it, and the process does not stop with the event unanswered.
C19_ActionAnswered ==
    \A i \in 1..Len(taken) :
        taken[i].props # "error" =>
            /\ \A k \in AnswersTo(taken[i]) :
                  /\ answers[k].call = "Continue"
                  /\ answers[k].opts =
                        IF taken[i].agent \in DOMAIN publicDIDs
                        THEN [publicDID |-> publicDIDs[taken[i].agent]]
                        ELSE Nil
            /\ Cardinality(AnswersTo(taken[i])) <= 1
            /\ ~Running => Cardinality(AnswersTo(taken[i])) = 1

Outbound == {"Send", "SendToDestination", "ReplyTo", "ReplyToNested"}

\* the thread saveMetadata keys the metadata of call c on: msg.ThreadID() of the
\* message as it is when saveMetadata is called, n being the number of the call
SavedThread(c, n) ==
    IF c.op = "ReplyTo" THEN ThreadID(c.out).val
    ELSE ThreadID(fillIfMissing(c.msg, NewUUID(n))).val

\* C21: an outbound call whose message has no metadata, or empty metadata,
\* leaves the store as it found it; one whose message has metadata changes
\* nothing but the metadata record of the message's thread, and when it got as
\* far as the dispatcher that record is exactly the new map, whatever map was
\* stored for the thread before.
C21_MetadataFrame ==
    [][last'.op \in Outbound =>
          LET md == Metadata(last'.msg)
              key == metadataKey(SavedThread(last', ncalls'))
          IN  /\ DOMAIN md = {} => store' = store
              /\ DOMAIN md # {} =>
                    /\ DOMAIN store' \subseteq DOMAIN store \cup {key}
                    /\ \A k \in DOMAIN store \ {key} :
                          k \in DOMAIN store' /\ store'[k] = store[k]
                    /\ Dispatched(last') =>
                          /\ key \in DOMAIN store'
                          /\ store'[key] = ("metadata" :> md)]_vars

\* a Send on thread m1 with metadata k2 has replaced the record of m1, which an
\* earlier Send had written with k1, and the record of thread t1 is as it was
C21_Witness ==
    /\ last.op = "Send" /\ Dispatched(last)
    /\ Metadata(last.msg) = M2
    /\ SavedThread(last, ncalls) = "m1"
    /\ ncalls = 3
    /\ DOMAIN store = {"metadata_m1", "metadata_t1"}
    /\ store["metadata_m1"] = ("metadata" :> M2)
    /\ store["metadata_t1"] = ("metadata" :> M1)


\* C22: a HandleInbound of a message with an @id, the store's Put not failing:
\* when the store has no metadata record for the message's thread, the call
\* succeeds, leaves the message record under @id and leaves the message as the
\* caller gave it; when the lookup of the metadata record fails otherwise, the
\* call returns that failure and the store is as it was.
C22_NoMetadataOrFailure ==
    [][(last'.op = "HandleInbound" /\ ID(last'.msg) # "") =>
          LET msg == last'.msg
              th == ThreadID(msg).val
          IN  /\ (last'.fail = "none" /\ metadataKey(th) \notin DOMAIN store) =>
                    /\ last'.err = Nil
                    /\ ID(msg) \in DOMAIN store'
                    /\ store'[ID(msg)] =
                          Marshal(record(last'.myDID, last'.theirDID, th,
                                         ParentThreadID(msg), Nil))
                    /\ last'.out = msg
              /\ last'.fail = "get" =>
                    /\ last'.err # Nil
                    /\ ErrorsIs(last'.err, ErrStore)
                    /\ ~ErrorsIs(last'.err, ErrDataNotFound)
                    /\ last'.out = msg
                    /\ store' = store]_vars

\* the lookup of the metadata record of thread t1 failed, for a message that the
\* store, which holds a metadata record of that thread, has no record of
C22_Witness ==
    /\ last.op = "HandleInbound" /\ last.fail = "get"
    /\ ID(last.msg) = "m1" /\ ThreadID(last.msg).val = "t1"
    /\ last.err = <<"with metadata", "get record", "store get", "store failure">>
    /\ "metadata_t1" \in DOMAIN store
    /\ "m1" \notin DOMAIN store


\* C23: a ReplyToNested whose options lack a thread id or a DID and name no
\* message id does not fail for that: unless the store refused the metadata, the
\* message goes to the dispatcher with ~thread = {pthid: opts.thread_id} for
\* opts.my_did and opts.their_did, empty as they may be, the options are as the
\* caller gave them, and the call returns what the dispatcher returned.
C23_NestedWithoutMsgID ==
    (/\ last.op = "ReplyToNested"
     /\ last.opts.MsgID = ""
     /\ (last.opts.ThreadID = "" \/ last.opts.MyDID = "" \/ last.opts.TheirDID = "")) =>
        /\ last.optsOut = last.opts
        /\ last.err \in {Nil, ErrTransport, Wrap("save metadata", ErrStore)}
        /\ last.fail \in {"none", "get"} => last.err = Nil
        /\ last.err # Wrap("save metadata", ErrStore) =>
              /\ Len(last.calls) = 1
              /\ last.calls[1].fn = "SendToDID"
              /\ last.calls[1].msg[jsonThread] = (jsonParentThreadID :> last.opts.ThreadID)
              /\ last.calls[1].a = last.opts.MyDID
              /\ last.calls[1].b = last.opts.TheirDID

\* a nested reply with nothing but their_did in its options has been dispatched,
\* with an empty pthid and to an empty my_did
C23_Witness ==
    /\ last.op = "ReplyToNested" /\ last.err = Nil
    /\ last.opts = [ThreadID |-> "", TheirDID |-> "did:f", MyDID |-> "", MsgID |-> ""]
    /\ Len(last.calls) = 1
    /\ last.calls[1].msg[jsonThread] = (jsonParentThreadID :> "")
    /\ last.calls[1].a = "" /\ last.calls[1].b = "did:f"


\* C24: a ReplyToNested that fails because the store has no record under
\* opts.msg_id has called the dispatcher not at all and has left the store as it
\* found it, with or without metadata on the message.
C24_FailedNestedReply ==
    [][(/\ last'.op = "ReplyToNested"
        /\ last'.err = Wrap("failed to prepare nested reply options",
                            Wrap("store get", ErrDataNotFound))) =>
          /\ last'.calls = <<>>
          /\ store' = store]_vars


\* C25: message records and metadata records never share a key: a HandleInbound
\* writes its record under a key that was free or held the record of an earlier
\* HandleInbound, never over a metadata record, and an outbound call leaves
\* every record HandleInbound has stored as it was.
C25_NoAliasing ==
    [][/\ (last'.op = "HandleInbound" /\ last'.err = Nil) =>
              (ID(last'.msg) \in DOMAIN store =>
                  /\ ID(last'.msg) \in DOMAIN inbound
                  /\ Unmarshal(store[ID(last'.msg)]) = inbound[ID(last'.msg)])
       /\ last'.op \in Outbound =>
              \A id \in DOMAIN inbound :
                  /\ id \in DOMAIN store'
                  /\ Unmarshal(store'[id]) = inbound[id]]_vars


\* C26: once HandleInbound has handled a message, handling it again for the
\* same DIDs, the store untouched in between, leaves the store as it is and
\* returns nil as the first call did; this is so for the message as the caller
\* first gave it and for the same map as the first call left it, which the
\* second call leaves as it is.
C26_Idempotent ==
    (last.op = "HandleInbound" /\ last.err = Nil) =>
        \A m \in {last.msg, last.out} :
            LET again == HandleInbound(store, m, last.myDID, last.theirDID, FALSE, FALSE)
            IN  /\ again.store = store
                /\ again.err = last.err
                /\ m = last.out => again.msg = last.out

\* message m1 of thread t1 has been handled and given the metadata stored for
\* its thread; the store holds its record and that of the metadata
C26_Witness ==
    /\ last.op = "HandleInbound" /\ last.err = Nil
    /\ ID(last.msg) = "m1" /\ ThreadID(last.msg).val = "t1"
    /\ Metadata(last.msg) = Nil /\ Metadata(last.out) = M1
    /\ DOMAIN store = {"m1", "metadata_t1"}
    /\ HandleInbound(store, last.msg, last.myDID, last.theirDID, FALSE, FALSE).msg
           = last.out


(***************************************************************************)
(* Concurrent calls of the messenger.  Two HandleInbound calls for         *)
(* different message ids, a Send and a ReplyTo run as goroutines over the  *)
(* one store; a store operation is atomic, a call is not: between its      *)
(* store operations the other calls may run.                               *)
(***************************************************************************)
\* a call that has not begun
Go(op, msg, myDID, theirDID, msgID) ==
    [op |-> op, pc |-> "start", msg |-> msg, myDID |-> myDID, theirDID |-> theirDID,
     msgID |-> msgID, rec |-> record("", "", "", "", Nil), err |-> Nil, calls |-> <<>>]

\* the messages of the concurrent calls
ConcurrentThreads ==
    {Nil, (jsonThread :> ((jsonThreadID :> "t1") @@ (jsonParentThreadID :> "p1")))}
FirstInbound == {(jsonID :> "m1") @@ t : t \in ConcurrentThreads}
SecondInbound == {(jsonID :> i) @@ t : i \in {"m2", "metadata_t1"}, t \in ConcurrentThreads}
ConcurrentSends ==
    {(jsonID :> "m3") @@ t @@ m : t \in ConcurrentThreads, m \in {Nil, (jsonMetadata :> M1)}}
ConcurrentReplies == {Nil, (jsonMetadata :> M2)}

InitConcurrent ==
    /\ store = Nil
    /\ inbound = Nil
    /\ persisted = Nil
    /\ tracking = FALSE
    /\ ncalls = 0
    /\ last = Idle
    /\ resolve = NotResolving
    /\ NoScenario
    /\ \E m1 \in FirstInbound, m2 \in SecondInbound, s \in ConcurrentSends,
          r \in ConcurrentReplies, id \in MsgIDs :
          running = <<Go("HandleInbound", m1, "did:a", "did:b", ""),
                      Go("HandleInbound", m2, "did:c", "did:d", ""),
                      Go("Send", s, "did:a", "did:b", ""),
                      Go("ReplyTo", r, "", "", id)>>

Goroutines == DOMAIN running

concurrentFrame == <<persisted, tracking, ncalls, last, resolve, exchangeVars>>

\* HandleInbound up to and with populateMetadata: the checks of the message,
\* then the store's Get of the metadata record
InboundPopulate ==
    \E g \in Goroutines :
        LET c == running[g]
            th == ThreadID(c.msg)
            pm == populateMetadata(store, th.val, c.msg, FALSE)
        IN  /\ c.op = "HandleInbound" /\ c.pc = "start"
            /\ running' = [running EXCEPT ![g] =
                   IF ID(c.msg) = ""
                   THEN [c EXCEPT !.pc = "done",
                                  !.err = <<"message-id is absent and can't be processed">>]
                   ELSE IF th.err # Nil
                   THEN [c EXCEPT !.pc = "done", !.err = Wrap("threadID", th.err)]
                   ELSE IF pm.err # Nil
                   THEN [c EXCEPT !.pc = "done", !.err = Wrap("with metadata", pm.err)]
                   ELSE [c EXCEPT !.pc = "save", !.msg = pm.msg]]
            /\ UNCHANGED <<store, inbound, concurrentFrame>>

\* HandleInbound, saveRecord: the store's Put of the message record
InboundSave ==
    \E g \in Goroutines :
        LET c == running[g]
            thID == ThreadID(c.msg).val
            rec == record(c.myDID, c.theirDID, thID, ParentThreadID(c.msg), Nil)
            sv == saveRecord(store, ID(c.msg), rec, FALSE)
        IN  /\ c.op = "HandleInbound" /\ c.pc = "save"
            /\ store' = sv.store
            /\ inbound' = (ID(c.msg) :> rec) @@ inbound
            /\ running' = [running EXCEPT ![g] = [c EXCEPT !.pc = "done", !.err = sv.err]]
            /\ UNCHANGED concurrentFrame

\* Send up to and with saveMetadata: the id is filled in, then the store's Put
\* of the metadata record
SendSave ==
    \E g \in Goroutines :
        LET c == running[g]
            msg == fillIfMissing(c.msg, NewUUID(g))
            sm == saveMetadata(store, msg, FALSE)
        IN  /\ c.op = "Send" /\ c.pc = "start"
            /\ store' = sm.store
            /\ running' = [running EXCEPT ![g] =
                   IF sm.err # Nil
                   THEN [c EXCEPT !.pc = "done", !.msg = msg,
                                  !.err = Wrap("save metadata", sm.err)]
                   ELSE [c EXCEPT !.pc = "dispatch", !.msg = msg]]
            /\ UNCHANGED <<inbound, concurrentFrame>>

\* Send after saveMetadata: ~thread is replaced and the message is handed to
\* the dispatcher
SendDispatch ==
    \E g \in Goroutines :
        LET c == running[g]
            out == SetKey(c.msg, jsonThread, (jsonThreadID :> ID(c.msg)))
            d == Dispatch(SendToDIDCall(out, c.myDID, c.theirDID), FALSE)
        IN  /\ c.op = "Send" /\ c.pc = "dispatch"
            /\ running' = [running EXCEPT ![g] =
                   [c EXCEPT !.pc = "done", !.msg = out, !.err = d.err, !.calls = d.calls]]
            /\ UNCHANGED <<store, inbound, concurrentFrame>>

\* ReplyTo up to and with getRecord: the store's Get of the message record
ReplyGet ==
    \E g \in Goroutines :
        LET c == running[g]
            msg == fillIfMissing(c.msg, NewUUID(g))
            found == getRecord(store, c.msgID, FALSE)
        IN  /\ c.op = "ReplyTo" /\ c.pc = "start"
            /\ running' = [running EXCEPT ![g] =
                   IF found.err # Nil
                   THEN [c EXCEPT !.pc = "done", !.msg = msg,
                                  !.err = Wrap("get record", found.err)]
                   ELSE [c EXCEPT !.pc = "save", !.rec = found.rec,
                                  !.msg = SetKey(msg, jsonThread, ReplyThread(found.rec))]]
            /\ UNCHANGED <<store, inbound, concurrentFrame>>

\* ReplyTo, saveMetadata: the store's Put of the metadata record
ReplySave ==
    \E g \in Goroutines :
        LET c == running[g]
            sm == saveMetadata(store, c.msg, FALSE)
        IN  /\ c.op = "ReplyTo" /\ c.pc = "save"
            /\ store' = sm.store
            /\ running' = [running EXCEPT ![g] =
                   IF sm.err # Nil
                   THEN [c EXCEPT !.pc = "done", !.err = Wrap("save metadata", sm.err)]
                   ELSE [c EXCEPT !.pc = "dispatch"]]
            /\ UNCHANGED <<inbound, concurrentFrame>>

\* ReplyTo after saveMetadata: the message is handed to the dispatcher with
\* the DIDs of the record found
ReplyDispatch ==
    \E g \in Goroutines :
        LET c == running[g]
            d == Dispatch(SendToDIDCall(c.msg, c.rec.MyDID, c.rec.TheirDID), FALSE)
        IN  /\ c.op = "ReplyTo" /\ c.pc = "dispatch"
            /\ running' = [running EXCEPT ![g] =
                   [c EXCEPT !.pc = "done", !.err = d.err, !.calls = d.calls]]
            /\ UNCHANGED <<store, inbound, concurrentFrame>>

NextConcurrent ==
    \/ InboundPopulate
    \/ InboundSave
    \/ SendSave
    \/ SendDispatch
    \/ ReplyGet
    \/ ReplySave
    \/ ReplyDispatch

SpecConcurrent == InitConcurrent /\ [][NextConcurrent]_vars


\* the record a HandleInbound call stores for its message
OwnRecord(c) ==
    record(c.myDID, c.theirDID, ThreadID(c.msg).val, ParentThreadID(c.msg), Nil)

\* C27: whatever the interleaving of the concurrent calls, once all have
\* returned the store holds, for every HandleInbound that succeeded, the record
\* of that call under the message's id, and a ReplyTo that found a record found
\* the record of one HandleInbound call for that message id, thread id and DIDs
\* together.
C27_Concurrent ==
    /\ (\A g \in Goroutines : running[g].pc = "done") =>
          \A g \in Goroutines :
              (running[g].op = "HandleInbound" /\ running[g].err = Nil) =>
                  /\ ID(running[g].msg) \in DOMAIN store
                  /\ Unmarshal(store[ID(running[g].msg)]) = OwnRecord(running[g])
    /\ \A g \in Goroutines :
          (running[g].op = "ReplyTo" /\ Dispatched(running[g])) =>
              \E h \in Goroutines :
                  /\ running[h].op = "HandleInbound"
                  /\ ID(running[h].msg) = running[g].msgID
                  /\ running[g].rec = OwnRecord(running[h])
                  /\ running[g].calls[1].a = running[h].myDID
                  /\ running[g].calls[1].b = running[h].theirDID

\* the calls among which no message id is the metadata key of a thread
NoSharedKey ==
    \A g \in Goroutines :
        ID(running[g].msg) # "metadata_t1" /\ running[g].msgID # "metadata_t1"


(***************************************************************************)
(* The event listeners and waitForPostEvent on their own: the service      *)
(* emits state messages of every kind, in any order, while the test waits  *)
(* for the post-state events of the inviter and then of the invitee.       *)
(***************************************************************************)
\* the state messages the service emits: post-state messages of states that
\* are registered or not, pre-state messages, messages whose Properties is
\* an error
StateMsgKinds ==
    {StateMsg(PostState, s, "event", "json") : s \in {"invited", "requested", "completed"}}
    \cup {StateMsg(PreState, s, "event", "json") : s \in {"requested", "completed"}}
    \cup {StateMsg(PostState, "completed", "error", "json"),
          StateMsg(PreState, "requested", "error", "json")}

\* the step of the scenario at which the test begins to wait
FirstWait == CHOOSE n \in 1..Len(Script) :
                 /\ Script[n].step = "waitForPostEvent"
                 /\ \A k \in 1..(n - 1) : Script[k].step # "waitForPostEvent"

\* the listeners are started and the test is at its first waitForPostEvent
InitListen ==
    /\ store = Nil
    /\ inbound = Nil
    /\ persisted = Nil
    /\ tracking = FALSE
    /\ ncalls = 0
    /\ last = Idle
    /\ resolve = NotResolving
    /\ running = <<>>
    /\ \E reg \in StateLists, aw \in StateLists :
        InitExchange(Nil, [a \in Agents |-> reg], [a \in Agents |-> aw], FirstWait)

\* the service emits a state message for an agent; a post-state message that
\* is no error is added to the history of the messages posted
EmitStateMsg ==
    /\ Running
    /\ nraised.events < MaxEvents
    /\ \E a \in Agents, e \in StateMsgKinds :
        /\ msgOut' = [msgOut EXCEPT ![a] = Append(@, e)]
        /\ conn' = [conn EXCEPT ![a].posted =
                       IF e.type = PostState /\ e.props # "error"
                       THEN Append(@, e.state) ELSE @]
    /\ nraised' = [nraised EXCEPT !.events = @ + 1]
    /\ UNCHANGED <<otherVars, approveVars, listenVars, network, actionOut,
                   connectionID, invitations, main, crashed>>

NextListen ==
    \/ EmitStateMsg
    \/ DeliverStateMsg
    \/ ListenerReceive
    \/ Signal
    \/ WaitTimeout

SpecListen == InitListen /\ [][NextListen]_vars


\* the test waits for the post-state events of agent a
Waiting(a) == At("waitForPostEvent") /\ Script[main.pc].agent = a

\* the states in a list
States(list) == {list[k] : k \in DOMAIN list}

\* every state the test awaits of agent a is registered with the listener of
\* a, and the service has emitted a post-state message for it
AllPosted(a) ==
    /\ States(awaited[a]) \subseteq States(registered[a])
    /\ States(awaited[a]) \subseteq States(conn[a].posted)

\* C28: when a post-state event has been emitted for every state the test
\* awaits, in whatever order, the listener is not blocked on the flag of a
\* state other than the one the test waits for; blocked there it sends no
\* other flag, the awaited flag never arrives and the wait can only time out.
C28_AnyOrder ==
    \A a \in Agents :
        (Waiting(a) /\ AllPosted(a) /\ listener[a].pc = "send") =>
            Head(listener[a].pending) = awaited[a][main.j]

\* C29: the listener, taking a state message that does not stop it, has one
\* flag to send when the message is a post-state message of a registered
\* state and none otherwise; a flag is taken only by the test waiting for
\* that state, which moves on by one state; a timeout names the state waited
\* for and takes no flag, of that state or of a later one.
C29_FlagPerState ==
    [][\A a \in Agents :
          /\ (statusCh[a] # <<>> /\ statusCh'[a] = Tail(statusCh[a]) /\ crashed' = "") =>
                listener'[a].pending =
                    IF /\ Head(statusCh[a]).type = PostState
                       /\ Head(statusCh[a]).state \in States(registered[a])
                    THEN <<Head(statusCh[a]).state>>
                    ELSE <<>>
          /\ (listener[a].pc = "send" /\ listener'[a] # listener[a]) =>
                /\ Waiting(a)
                /\ Head(listener[a].pending) = awaited[a][main.j]
                /\ listener'[a].pending = Tail(listener[a].pending)
                /\ main'.err = Nil
                /\ IF main.j < Len(awaited[a])
                   THEN main'.pc = main.pc /\ main'.j = main.j + 1
                   ELSE main'.pc = main.pc + 1
          /\ (Waiting(a) /\ main'.err # Nil) =>
                /\ main'.err = <<"timeout waiting for post state event",
                                 awaited[a][main.j]>>
                /\ main'.pc = main.pc /\ main'.j = main.j
                /\ listener' = listener]_vars

\* the test has timed out waiting for requested, the first state of its list,
\* and the flag of completed, the second, is still the listener's to send
C29_Witness ==
    /\ main.err = <<"timeout waiting for post state event", "requested">>
    /\ Script[main.pc].agent = Inviter
    /\ awaited[Inviter] = <<"requested", "completed">>
    /\ main.j = 1
    /\ listener[Inviter].pc = "send"
    /\ listener[Inviter].pending = <<"completed">>


\* the step of the scenario at which approveRequest is first called
FirstApprove == CHOOSE n \in 1..Len(Script) :
                    /\ Script[n].step = "approveRequest"
                    /\ \A k \in 1..(n - 1) : Script[k].step # "approveRequest"

\* the listeners are started, the test is about to call approveRequest for
\* the invitee and for the inviter
InitConsume ==
    /\ store = Nil
    /\ inbound = Nil
    /\ persisted = Nil
    /\ tracking = FALSE
    /\ ncalls = 0
    /\ last = Idle
    /\ resolve = NotResolving
    /\ running = <<>>
    /\ \E pubs \in PublicDIDChoices :
        InitExchange(pubs, [a \in Agents |-> <<"completed">>],
                     [a \in Agents |-> <<"completed">>], FirstApprove)

\* the consumers of both channels: the approveRequest goroutines with the
\* action events, the event listeners with the state messages, of every kind
NextConsume ==
    \/ ApproveRequestStep
    \/ RaiseAction
    \/ DeliverAction
    \/ ApproverReceive
    \/ ApproverSwitch
    \/ ApproverWritten
    \/ ApproverContinue
    \/ EmitStateMsg
    \/ DeliverStateMsg
    \/ ListenerReceive

SpecConsume == InitConsume /\ [][NextConsume]_vars

\* C30: a listener that takes a state message whose Properties is an error
\* panics and has no flag to send for it; a goroutine of approveRequest that
\* holds an action event whose Properties is an error goes no further with it,
\* and no Continue or Stop is ever called on such an event; after the panic
\* nothing more is done.
C30_ErrorStops ==
    [][/\ \A a \in Agents :
             (/\ statusCh[a] # <<>>
              /\ statusCh'[a] = Tail(statusCh[a])
              /\ Head(statusCh[a]).props = "error") =>
                 (crashed' = "panic" /\ listener' = listener)
       /\ \A g \in 1..Len(approvers) :
             (approvers[g].pc = "switch" /\ approvers[g].e.props = "error") =>
                 approvers'[g] = approvers[g]
       /\ \A k \in 1..Len(answers') : answers'[k].e.props # "error"
       /\ crashed = "panic" =>
             UNCHANGED <<listener, approvers, answers, statusCh, actionCh>>]_vars

\* the process has panicked with an error event in the hands of a goroutine,
\* which had answered the event before it, and an error state message taken
\* by a listener, which is sending no flag
C30_Witness ==
    /\ crashed = "panic"
    /\ \E g \in 1..Len(approvers) :
          /\ approvers[g].pc = "switch"
          /\ approvers[g].e.props = "error"
          /\ AnswersTo(approvers[g].e) = {}
    /\ Len(taken) = 2 /\ Len(answers) = 1
    /\ \A a \in Agents : listener[a].pending = <<>>


\* C31: when resolveDID returns a nil error, the resolver was asked at least
\* once in that call, its last answer was a document without error, and that
\* document is what is returned; this for every maxRetry, 0 included.
C31_NilErrorResolved ==
    (resolve.pc = "done" /\ resolve.err = Nil) =>
        /\ Len(resolve.results) >= 1
        /\ resolve.results[Len(resolve.results)].err = Nil
        /\ resolve.doc = resolve.results[Len(resolve.results)].doc
        /\ resolve.doc \in Docs

=============================================================================
